---- MODULE Spec2Model ----
(***************************************************************************)
(* Canvas engine of the Aboard whiteboard (src/main.py): the view          *)
(* transform (pan offset, zoom), the pointer/scroll event handlers of      *)
(* WhiteboardArea, the tool selection of WhiteboardWindow and the loading, *)
(* saving and deleting of persisted boards.                                *)
(*                                                                         *)
(* Python floats are modelled as binary floating-point numbers of reduced  *)
(* precision: a float is an integer count of units of 2^-FracBits, and     *)
(* every arithmetic result is rounded to nearest-even on MantBits          *)
(* significant bits (values below 2^(MantBits-FracBits) keep the absolute  *)
(* spacing 2^-FracBits, as subnormals do).                                 *)
(***************************************************************************)
EXTENDS Integers, Sequences, FiniteSets, TLC

\* ---------------------------------------------------------------- bounds
MantBits == 12          \* significant bits of a model float
FracBits == 8           \* the smallest spacing is 2^-FracBits
MaxPoints == 3          \* points of a stroke draft
MaxViewPoints == 1      \* the same, in the sessions that follow the view
MaxEntities == 1        \* committed strokes, shapes and text items
MaxViewEvents == 2      \* scroll ticks and pan moves of one session
MaxDrawViewEvents == 1  \* the same, in the sessions that follow the gestures
MaxOffset == 40         \* |offset| in screen units
MaxUris == 2            \* files of one drop
MaxSplinePoints == 5    \* points of a stroke draft that is smoothed
MaxSegments == 2        \* num_segments of catmull_rom_spline

\* ------------------------------------------------- floating-point helpers
Unit == 2^FracBits

Abs(n) == IF n < 0 THEN 0 - n ELSE n

Sign(n) == IF n < 0 THEN 0 - 1 ELSE 1

Min(a, b) == IF a < b THEN a ELSE b

Max(a, b) == IF a > b THEN a ELSE b

\* round-to-nearest-even of the non-negative rational a/d
RoundNearestEven(a, d) ==
    LET q == a \div d
        r == a % d
    IN  IF 2 * r < d THEN q
        ELSE IF 2 * r > d THEN q + 1
        ELSE q + (q % 2)

RECURSIVE ShiftOf(_, _, _)
\* least k with floor(a / (d * 2^k)) < 2^MantBits
ShiftOf(a, d, k) ==
    IF a \div (d * 2^k) < 2^MantBits THEN k ELSE ShiftOf(a, d, k + 1)

\* the float nearest to the rational a/d units (d > 0)
RoundQ(a, d) ==
    LET m == Abs(a)
        k == ShiftOf(m, d, 0)
    IN  Sign(a) * RoundNearestEven(m, d * 2^k) * 2^k

FromInt(i) == RoundQ(i * Unit, 1)

FromRat(a, b) == RoundQ(a * Unit, b)

FAdd(x, y) == RoundQ(x + y, 1)

FSub(x, y) == RoundQ(x - y, 1)

FMul(x, y) == RoundQ(x * y, Unit)

\* y # 0: the callers model ZeroDivisionError themselves
FDiv(x, y) == RoundQ(Sign(y) * x * Unit, Abs(y))

\* ------------------------------------------------------- program constants
min_zoom == FromRat(1, 10)

max_zoom == FromInt(5)

ZoomIn == FromRat(11, 10)

ZoomOut == FromRat(9, 10)

DragThreshold == FromInt(5)

DefaultBrushSize == 3

MinFontSize == 12

White == <<1, 1, 1>>

Black == <<0, 0, 0>>

Red == <<1, 0, 0>>

None == [none |-> TRUE]

Tools == {"brush", "shape", "text"}

ShapeTypes == {"rect", "circle", "triangle", "arrow"}

\* ------------------------------------------------------------------ state
VARIABLES
    zoom, offset_x, offset_y,              \* WhiteboardArea view
    is_panning, pan_start_x, pan_start_y,
    current_stroke, current_shape, shape_start_x, shape_start_y,
    strokes, shapes, text_items, images, brush_size,
    bg_color, brush_color, eraser_mode,    \* WhiteboardApp
    current_tool, current_shape_type,
    ev,          \* the event or operation handled last
    raised,      \* the last handler ended with an exception
    queued,      \* the last handler called queue_draw
    gesture,     \* the primary-button gesture in progress, as delivered
    button1,     \* the primary button is held down (BUTTON1_MASK)
    nview,       \* scroll ticks and pan moves handled in this session
    app_dark_mode,   \* WhiteboardApp.dark_mode
    board_name,      \* WhiteboardWindow.board_name
    board_save,  \* the files that this run wrote to the directory board_save
                 \* and did not delete: board name -> stored record
    own_file     \* the window was opened on a stored board, or has saved

viewVars == <<zoom, offset_x, offset_y>>

panVars == <<is_panning, pan_start_x, pan_start_y>>

draftVars == <<current_stroke, current_shape, shape_start_x, shape_start_y>>

docVars == <<strokes, shapes, text_items, images>>

appVars == <<bg_color, brush_color, eraser_mode, current_tool, current_shape_type>>

sessionVars == <<app_dark_mode, board_name, board_save, own_file>>

vars == <<viewVars, panVars, draftVars, docVars, brush_size, appVars,
          sessionVars, ev, raised, queued, gesture, button1, nview>>

\* the name that the dialog of MainMenuWindow.on_new_board_clicked proposes
DefaultName == "Untitled Board"

\* no primary-button gesture is being followed
NoGesture == [kind |-> "none", pts |-> <<>>]

\* WhiteboardApp.__init__ and WhiteboardArea.__init__
Init ==
    /\ zoom = FromInt(1) /\ offset_x = 0 /\ offset_y = 0
    /\ is_panning = FALSE /\ pan_start_x = 0 /\ pan_start_y = 0
    /\ current_stroke = None /\ current_shape = None
    /\ shape_start_x = 0 /\ shape_start_y = 0
    /\ strokes = <<>> /\ shapes = <<>> /\ text_items = <<>> /\ images = <<>>
    /\ brush_size = DefaultBrushSize
    /\ bg_color = White /\ brush_color = Black
    /\ eraser_mode = FALSE /\ current_tool = "brush"
    /\ current_shape_type = "rect"
    /\ ev = [kind |-> "init", arg |-> 0, x |-> 0, y |-> 0]
    /\ raised = FALSE /\ queued = FALSE
    /\ gesture = NoGesture
    /\ button1 = FALSE
    /\ nview = 0
    /\ app_dark_mode = FALSE
    /\ board_name = DefaultName
    /\ board_save = <<>>
    /\ own_file = FALSE

\* ------------------------------------------------------ Geometry/Transform
\* the offset subtracted after the division
ScreenToWorldOffsetLast(sx, sy, ox, oy, z) ==
    <<FSub(FDiv(sx, z), ox), FSub(FDiv(sy, z), oy)>>

\* screen_to_world with the view passed explicitly (z # 0)
ScreenToWorldAt(sx, sy, ox, oy, z) ==
    <<FDiv(FSub(sx, ox), z), FDiv(FSub(sy, oy), z)>>

WorldToScreenAt(wx, wy, ox, oy, z) ==
    <<FAdd(FMul(wx, z), ox), FAdd(FMul(wy, z), oy)>>

\* the conversion at the zoom the board was created with
ScreenToWorldInitialZoom(sx, sy) ==
    ScreenToWorldAt(sx, sy, offset_x, offset_y, FromInt(1))

screen_to_world(sx, sy) == ScreenToWorldAt(sx, sy, offset_x, offset_y, zoom)

world_to_screen(wx, wy) == WorldToScreenAt(wx, wy, offset_x, offset_y, zoom)

\* the event record kept in ev: arg is the button of a press or release, the
\* zoom_factor asked for by a scroll (0: none), the record loaded by an open
\* and the pixbuf size of an image; x, y are the focus of a scroll, and x is
\* what the text dialog returned to a press of the text tool; y of a
\* secondary-down is the offset and the pointer position it found, and the
\* pan moves that follow it without another event in between keep that y
Event(kind, arg, x, y) == [kind |-> kind, arg |-> arg, x |-> x, y |-> y]

\* zoom_factor chosen by on_scroll, 0 when the handler returns early
ScrollFactor(direction, dy) ==
    IF direction = "UP" THEN ZoomIn
    ELSE IF direction = "DOWN" THEN ZoomOut
    ELSE IF direction = "SMOOTH"
         THEN IF dy < 0 THEN ZoomIn ELSE IF dy > 0 THEN ZoomOut ELSE 0
    ELSE 0

\* the clamp without its upper bound
ClampedZoomNoMax(z, factor) == Max(min_zoom, FMul(z, factor))

\* new_zoom = max(min_zoom, min(max_zoom, zoom * zoom_factor))
ClampedZoom(z, factor) == Max(min_zoom, Min(max_zoom, FMul(z, factor)))

\* the offset left as it was when the zoom changes
ZoomedOffsetStale(mouse, world, off, nz) == off

\* offset after the zoom changed to nz: offset += mouse - world_to_screen(world)
ZoomedOffset(mouse, world, off, nz) ==
    FAdd(off, FSub(mouse, FAdd(FMul(world, nz), off)))

\* the offset recomputed on every tick
ZoomChangedAlways(new_zoom, z) == TRUE

\* the test "new_zoom != self.zoom" of on_scroll
ZoomChanged(new_zoom, z) == new_zoom # z

\* WhiteboardArea.on_scroll
OnScroll(direction, dy, mx, my) ==
    /\ UNCHANGED sessionVars
    /\ ev' = Event("scroll", ScrollFactor(direction, dy), mx, my)
    /\ nview' = nview + 1
    /\ UNCHANGED <<panVars, draftVars, docVars, brush_size, appVars, gesture,
                   button1>>
    /\ IF zoom = 0
       THEN \* screen_to_world divides by zero
            /\ raised' = TRUE /\ queued' = FALSE
            /\ UNCHANGED viewVars
       ELSE LET world == screen_to_world(mx, my)
                factor == ScrollFactor(direction, dy)
                new_zoom == ClampedZoom(zoom, factor)
            IN  /\ raised' = FALSE
                /\ IF factor # 0 /\ ZoomChanged(new_zoom, zoom)
                   THEN /\ zoom' = new_zoom
                        /\ offset_x' = ZoomedOffset(mx, world[1], offset_x, new_zoom)
                        /\ offset_y' = ZoomedOffset(my, world[2], offset_y, new_zoom)
                        /\ queued' = TRUE
                   ELSE /\ UNCHANGED viewVars
                        /\ queued' = FALSE

Whitespace == {" ", "\t", "\n"}

RECURSIVE LStrip(_)
\* a text is a sequence of characters; str.strip drops the whitespace ends
LStrip(text) ==
    IF text # <<>> /\ Head(text) \in Whitespace THEN LStrip(Tail(text)) ELSE text

RECURSIVE RStrip(_)
RStrip(text) ==
    IF text # <<>> /\ text[Len(text)] \in Whitespace
    THEN RStrip(SubSeq(text, 1, Len(text) - 1))
    ELSE text

\* nothing is stripped
StripNothing(text) == text

Strip(text) == RStrip(LStrip(text))

\* WhiteboardArea.add_text: the text collection after add_text(text, x, y)
\* an item placed at the world origin
AddedTextUnanchored(text, x, y) ==
    IF Strip(text) = <<>>
    THEN text_items
    ELSE Append(text_items,
                [text |-> text, x |-> 0, y |-> 0, color |-> brush_color,
                 font_size |-> Max(MinFontSize, brush_size * 4)])

\* the text items after add_text(text, x, y)
AddedText(text, x, y) ==
    IF Strip(text) = <<>>
    THEN text_items
    ELSE Append(text_items,
                [text |-> text, x |-> x, y |-> y, color |-> brush_color,
                 font_size |-> Max(MinFontSize, brush_size * 4)])

\* floats finer than Unit: a scale factor below 1 keeps MantBits significant
\* bits when it is counted in units of 1 / FineUnit
FineUnit == Unit * Unit

max_size == 500

\* the factor of the height alone
ImageScaleHeightOnly(width, height) == RoundQ(max_size * FineUnit, height)

\* scale = min(max_size / width, max_size / height), in units of 1 / FineUnit
ImageScale(width, height) ==
    Min(RoundQ(max_size * FineUnit, width), RoundQ(max_size * FineUnit, height))

\* int(n * scale): the float product, truncated (n > 0)
Scaled(n, scale) == RoundQ(n * scale, Unit) \div Unit

\* the (width, height) that add_image records for a pixbuf of that size
ImageSize(width, height) ==
    IF width > max_size \/ height > max_size
    THEN <<Scaled(width, ImageScale(width, height)),
           Scaled(height, ImageScale(width, height))>>
    ELSE <<width, height>>

\* WhiteboardArea.add_image for a pixbuf of width x height at world (x, y)
AddImage(width, height, x, y) ==
    /\ images' = Append(images,
                        [x |-> x, y |-> y,
                         width |-> ImageSize(width, height)[1],
                         height |-> ImageSize(width, height)[2]])
    /\ queued' = TRUE
    /\ raised' = FALSE
    /\ UNCHANGED sessionVars
    /\ ev' = Event("image", <<width, height>>, 0, 0)
    /\ gesture' = NoGesture
    /\ UNCHANGED <<viewVars, panVars, draftVars, strokes, shapes, text_items,
                   brush_size, appVars, button1, nview>>

\* WhiteboardWindow.on_drag_data_received for one dropped image file decoded
\* to a pixbuf of width x height: the ZeroDivisionError of screen_to_world is
\* caught with the exceptions of the decoder
OnDragDataReceived(width, height, x, y) ==
    IF zoom = 0
    THEN /\ UNCHANGED sessionVars
         /\ ev' = Event("image", <<width, height>>, 0, 0)
         /\ raised' = FALSE /\ queued' = FALSE
         /\ gesture' = NoGesture
         /\ UNCHANGED <<viewVars, panVars, draftVars, docVars, brush_size,
                        appVars, button1, nview>>
    ELSE AddImage(width, height, screen_to_world(x, y)[1],
                  screen_to_world(x, y)[2])

\* a dropped URI whose file GdkPixbuf cannot decode
Undecodable == [ok |-> FALSE, width |-> 0, height |-> 0]

\* a dropped URI whose file decodes to a pixbuf of width x height
Decoded(width, height) == [ok |-> TRUE, width |-> width, height |-> height]

\* the entry add_image appends for a pixbuf of width x height at world (x, y)
AddedImage(width, height, x, y) ==
    [x |-> x, y |-> y,
     width |-> ImageSize(width, height)[1],
     height |-> ImageSize(width, height)[2]]

RECURSIVE DroppedImagesStopAtFailure(_, _, _, _)
\* a loop that the first failed decode ends
DroppedImagesStopAtFailure(imgs, files, x, y) ==
    IF files = <<>> \/ ~Head(files).ok \/ zoom = 0 THEN imgs
    ELSE DroppedImagesStopAtFailure(
             Append(imgs, AddedImage(Head(files).width, Head(files).height,
                                     screen_to_world(x, y)[1],
                                     screen_to_world(x, y)[2])),
             Tail(files), x, y)

RECURSIVE DroppedImages(_, _, _, _)
\* the loop of on_drag_data_received over the dropped URIs: the exception of
\* a failed decode, and the ZeroDivisionError of screen_to_world, are caught
\* inside the loop and the next URI is tried
DroppedImages(imgs, files, x, y) ==
    IF files = <<>> THEN imgs
    ELSE DroppedImages(
             IF Head(files).ok /\ zoom # 0
             THEN Append(imgs,
                         AddedImage(Head(files).width, Head(files).height,
                                    screen_to_world(x, y)[1],
                                    screen_to_world(x, y)[2]))
             ELSE imgs,
             Tail(files), x, y)

\* WhiteboardWindow.on_drag_data_received for a drop of several URIs at the
\* screen position (x, y); ev keeps the URIs and the images before the drop
OnDragDataReceivedUris(files, x, y) ==
    /\ images' = DroppedImages(images, files, x, y)
    /\ queued' = (Len(images') > Len(images))
    /\ raised' = FALSE
    /\ UNCHANGED sessionVars
    /\ ev' = Event("drop", files, images, 0)
    /\ gesture' = NoGesture
    /\ UNCHANGED <<viewVars, panVars, draftVars, strokes, shapes, text_items,
                   brush_size, appVars, button1, nview>>

\* the gesture that a primary-down at world point w starts
StartedGesture(w) ==
    IF current_stroke # None \/ current_shape # None \/ current_tool = "text"
    THEN NoGesture
    ELSE [kind |-> current_tool, pts |-> <<w>>]

\* the eraser draws with the brush colour
StrokeColorBrushAlways == brush_color

\* the colour of a new stroke draft: the background colour in eraser mode
StrokeColor == IF eraser_mode THEN bg_color ELSE brush_color

\* WhiteboardArea.on_button_press; response and text are what the text
\* dialog of WhiteboardApp.show_text_input_dialog returns
OnButtonPress(button, x, y, response, text) ==
    /\ UNCHANGED sessionVars
    /\ ev' = Event("press", button,
                   IF button = 1 /\ ~is_panning /\ zoom # 0
                      /\ current_tool = "text"
                   THEN <<response, text>> ELSE <<>>,
                   IF button = 3 THEN <<offset_x, offset_y, x, y>> ELSE <<>>)
    /\ button1' = IF button = 1
                  THEN ~(~is_panning /\ zoom # 0 /\ current_tool = "text")
                  ELSE button1
    /\ UNCHANGED <<viewVars, brush_size, appVars, nview, images>>
    /\ IF button = 3
       THEN /\ is_panning' = TRUE
            /\ pan_start_x' = x
            /\ pan_start_y' = y
            /\ raised' = FALSE /\ queued' = FALSE
            /\ gesture' = NoGesture
            /\ UNCHANGED <<draftVars, strokes, shapes, text_items>>
       ELSE IF button = 1 /\ ~is_panning
       THEN IF zoom = 0
            THEN /\ raised' = TRUE /\ queued' = FALSE
                 /\ gesture' = NoGesture
                 /\ UNCHANGED <<panVars, draftVars, strokes, shapes, text_items>>
            ELSE LET w == screen_to_world(x, y)
                 IN  /\ raised' = FALSE
                     /\ gesture' = StartedGesture(w)
                     /\ UNCHANGED <<panVars, strokes, shapes>>
                     /\ IF current_tool = "text"
                        THEN /\ text_items' = IF response = "OK"
                                              THEN AddedText(text, w[1], w[2])
                                              ELSE text_items
                             /\ queued' = (text_items' # text_items)
                             /\ UNCHANGED draftVars
                        ELSE IF current_tool = "shape"
                        THEN /\ shape_start_x' = w[1]
                             /\ shape_start_y' = w[2]
                             /\ current_shape' =
                                    [type |-> current_shape_type,
                                     x |-> w[1], y |-> w[2], w |-> 0, h |-> 0,
                                     color |-> brush_color, size |-> brush_size]
                             /\ queued' = FALSE
                             /\ UNCHANGED <<current_stroke, text_items>>
                        ELSE /\ current_stroke' =
                                    [points |-> <<w>>,
                                     color |-> StrokeColor,
                                     size |-> brush_size,
                                     is_eraser |-> eraser_mode]
                             /\ queued' = TRUE
                             /\ UNCHANGED <<current_shape, shape_start_x,
                                            shape_start_y, text_items>>
       ELSE /\ raised' = FALSE /\ queued' = FALSE
            /\ gesture' = NoGesture
            /\ UNCHANGED <<panVars, draftVars, strokes, shapes, text_items>>

\* the gesture after a pointer-move with the primary button held reached w
MovedGesture(w) ==
    IF gesture.kind = "brush" THEN [gesture EXCEPT !.pts = Append(@, w)]
    ELSE IF gesture.kind = "shape"
         THEN [gesture EXCEPT !.pts = <<gesture.pts[1], w>>]
    ELSE NoGesture

\* the extent normalised while dragging
ShapeExtentUnsigned(w, start) == Abs(FSub(w, start))

\* the draft extent set by on_motion: current world coordinate - shape_start
ShapeExtent(w, start) == FSub(w, start)

\* a point equal to the last one is dropped
AppendedPointsDedup(points, w) ==
    IF points[Len(points)] = w THEN points ELSE Append(points, w)

\* the draft points after on_motion appended the world point w
AppendedPoints(points, w) == Append(points, w)

\* a draft that takes the shape type selected at the time of the move
MovedShapeRetyped(shape, w) ==
    [shape EXCEPT !.type = current_shape_type,
                  !.w = ShapeExtent(w[1], shape_start_x),
                  !.h = ShapeExtent(w[2], shape_start_y)]

\* the shape draft after on_motion reached the world point w
MovedShape(shape, w) ==
    [shape EXCEPT !.w = ShapeExtent(w[1], shape_start_x),
                  !.h = ShapeExtent(w[2], shape_start_y)]

\* the pointer delta taken in world units
PannedOffsetInWorld(off, pos, start) == FAdd(off, FDiv(FSub(pos, start), zoom))

\* the offset after a pan move to pos: dx = event.x - pan_start_x is added
PannedOffset(off, pos, start) == FAdd(off, FSub(pos, start))

\* a move that draws when the primary button is held
MotionPansUnlessDrawing == is_panning /\ ~button1

\* the first test of on_motion: a move during a pan gesture pans
MotionPans == is_panning

\* WhiteboardArea.on_motion; button1 is event.state & BUTTON1_MASK
OnMotion(x, y) ==
    /\ UNCHANGED sessionVars
    /\ ev' = Event("motion", 0, 0,
                   IF is_panning /\ ev.kind \in {"press", "motion"}
                   THEN ev.y ELSE <<>>)
    /\ UNCHANGED <<zoom, docVars, brush_size, appVars, button1>>
    /\ IF MotionPans
       THEN /\ offset_x' = PannedOffset(offset_x, x, pan_start_x)
            /\ offset_y' = PannedOffset(offset_y, y, pan_start_y)
            /\ pan_start_x' = x
            /\ pan_start_y' = y
            /\ raised' = FALSE /\ queued' = TRUE
            /\ gesture' = NoGesture
            /\ nview' = nview + 1
            /\ UNCHANGED <<is_panning, draftVars>>
       ELSE IF button1
       THEN IF zoom = 0
            THEN /\ raised' = TRUE /\ queued' = FALSE
                 /\ gesture' = NoGesture
                 /\ UNCHANGED <<offset_x, offset_y, panVars, draftVars, nview>>
            ELSE LET w == screen_to_world(x, y)
                 IN  /\ raised' = FALSE
                     /\ gesture' = MovedGesture(w)
                     /\ UNCHANGED <<offset_x, offset_y, panVars, nview,
                                    shape_start_x, shape_start_y>>
                     /\ IF current_shape # None
                        THEN /\ current_shape' = MovedShape(current_shape, w)
                             /\ queued' = TRUE
                             /\ UNCHANGED current_stroke
                        ELSE IF current_stroke # None
                        THEN /\ current_stroke' =
                                    [current_stroke EXCEPT
                                        !.points = AppendedPoints(@, w)]
                             /\ queued' = TRUE
                             /\ UNCHANGED current_shape
                        ELSE /\ queued' = FALSE
                             /\ UNCHANGED <<current_stroke, current_shape>>
       ELSE /\ raised' = FALSE /\ queued' = FALSE
            /\ gesture' = NoGesture
            /\ UNCHANGED <<offset_x, offset_y, panVars, draftVars, nview>>

\* the commit test with the threshold itself accepted
ShapeCommittedAtThreshold(shape) ==
    Abs(shape.w) >= DragThreshold \/ Abs(shape.h) >= DragThreshold

\* the commit test of on_button_release for a shape draft
ShapeCommitted(shape) ==
    Abs(shape.w) > DragThreshold \/ Abs(shape.h) > DragThreshold

\* a commit of the first point of the draft only
CommittedStrokesFirstPoint(ss, stroke) ==
    Append(ss, [stroke EXCEPT !.points = <<stroke.points[1]>>])

\* the strokes after on_button_release promoted the stroke draft
CommittedStrokes(ss, stroke) ==
    IF Len(stroke.points) > 0 THEN Append(ss, stroke) ELSE ss

\* the draft chosen by the tool that is current at the release
ReleasedDraftByTool ==
    IF current_tool = "shape" /\ current_shape # None THEN "shape"
    ELSE IF current_tool = "brush" /\ current_stroke # None THEN "stroke"
    ELSE "none"

\* the draft that a primary-up ends: the shape draft is tested first
ReleasedDraft ==
    IF current_shape # None THEN "shape"
    ELSE IF current_stroke # None THEN "stroke"
    ELSE "none"

\* WhiteboardArea.on_button_release
OnButtonRelease(button) ==
    /\ UNCHANGED sessionVars
    /\ ev' = Event("release", button, 0, 0)
    /\ button1' = IF button = 1 THEN FALSE ELSE button1
    /\ raised' = FALSE
    /\ gesture' = NoGesture
    /\ UNCHANGED <<viewVars, pan_start_x, pan_start_y, shape_start_x,
                   shape_start_y, text_items, images, brush_size, appVars,
                   nview>>
    /\ IF button = 3
       THEN /\ is_panning' = FALSE
            /\ queued' = FALSE
            /\ UNCHANGED <<current_stroke, current_shape, strokes, shapes>>
       ELSE IF button = 1 /\ ReleasedDraft = "shape"
       THEN /\ shapes' = IF ShapeCommitted(current_shape)
                         THEN Append(shapes, current_shape)
                         ELSE shapes
            /\ current_shape' = None
            /\ queued' = TRUE
            /\ UNCHANGED <<is_panning, current_stroke, strokes>>
       ELSE IF button = 1 /\ ReleasedDraft = "stroke"
       THEN /\ strokes' = CommittedStrokes(strokes, current_stroke)
            /\ current_stroke' = None
            /\ queued' = TRUE
            /\ UNCHANGED <<is_panning, current_shape, shapes>>
       ELSE /\ queued' = FALSE
            /\ UNCHANGED <<is_panning, current_stroke, current_shape,
                           strokes, shapes>>

\* ------------------------------------------------------ WhiteboardWindow
\* what every tool, colour and size handler leaves alone; the event names
\* the handler
ToolFrame(handler) ==
    /\ UNCHANGED sessionVars
    /\ ev' = Event("tool", handler, 0, 0)
    /\ raised' = FALSE /\ queued' = FALSE
    /\ gesture' = NoGesture
    /\ UNCHANGED <<viewVars, panVars, draftVars, docVars, button1, nview>>

OnSelectBrush ==
    /\ current_tool' = "brush"
    /\ eraser_mode' = FALSE
    /\ ToolFrame("on_select_brush")
    /\ UNCHANGED <<bg_color, brush_color, current_shape_type, brush_size>>

\* a toggle that leaves the tool alone
OnToggleEraserKeepsTool ==
    /\ eraser_mode' = ~eraser_mode
    /\ UNCHANGED current_tool
    /\ ToolFrame("on_toggle_eraser")
    /\ UNCHANGED <<bg_color, brush_color, current_shape_type, brush_size>>

OnToggleEraser ==
    /\ eraser_mode' = ~eraser_mode
    /\ current_tool' = IF eraser_mode' THEN "brush" ELSE current_tool
    /\ ToolFrame("on_toggle_eraser")
    /\ UNCHANGED <<bg_color, brush_color, current_shape_type, brush_size>>

OnSelectShape ==
    /\ current_tool' = "shape"
    /\ eraser_mode' = FALSE
    /\ ToolFrame("on_select_shape")
    /\ UNCHANGED <<bg_color, brush_color, current_shape_type, brush_size>>

OnSelectShapeType(shape_type) ==
    /\ current_shape_type' = shape_type
    /\ current_tool' = "shape"
    /\ eraser_mode' = FALSE
    /\ ToolFrame("on_select_shape_type")
    /\ UNCHANGED <<bg_color, brush_color, brush_size>>

OnSelectText ==
    /\ current_tool' = "text"
    /\ eraser_mode' = FALSE
    /\ ToolFrame("on_select_text")
    /\ UNCHANGED <<bg_color, brush_color, current_shape_type, brush_size>>

OnColorSet(color) ==
    /\ brush_color' = color
    /\ ToolFrame("on_color_set")
    /\ UNCHANGED <<bg_color, eraser_mode, current_tool, current_shape_type,
                   brush_size>>

\* value is the position of the Gtk.Scale created with range 1..50, step 1
OnBrushSizeChanged(value) ==
    /\ brush_size' = value
    /\ ToolFrame("on_brush_size_changed")
    /\ UNCHANGED appVars

\* clear that forgets the drafts
OnClearKeepsDrafts ==
    /\ strokes' = <<>>
    /\ shapes' = <<>>
    /\ text_items' = <<>>
    /\ images' = <<>>
    /\ queued' = TRUE
    /\ raised' = FALSE
    /\ UNCHANGED sessionVars
    /\ ev' = Event("clear", 0, 0, 0)
    /\ gesture' = NoGesture
    /\ UNCHANGED <<viewVars, panVars, draftVars, brush_size, appVars, button1,
                   nview>>

\* WhiteboardWindow.on_clear answered YES: WhiteboardArea.clear
OnClear ==
    /\ strokes' = <<>>
    /\ current_stroke' = None
    /\ shapes' = <<>>
    /\ current_shape' = None
    /\ text_items' = <<>>
    /\ images' = <<>>
    /\ queued' = TRUE
    /\ raised' = FALSE
    /\ UNCHANGED sessionVars
    /\ ev' = Event("clear", 0, 0, 0)
    /\ gesture' = NoGesture
    /\ UNCHANGED <<viewVars, panVars, shape_start_x, shape_start_y,
                   brush_size, appVars, button1, nview>>

\* ------------------------------------------------------------ Smoothing
\* the sum of the four terms, not halved
SplineCoordUnhalved(p0, p1, p2, p3, t, t2, t3) ==
    FAdd(FAdd(FAdd(FMul(FromInt(2), p1),
                   FMul(FAdd(0 - p0, p2), t)),
              FMul(FSub(FAdd(FSub(FMul(FromInt(2), p0),
                                  FMul(FromInt(5), p1)),
                             FMul(FromInt(4), p2)), p3), t2)),
         FMul(FAdd(FSub(FAdd(0 - p0, FMul(FromInt(3), p1)),
                        FMul(FromInt(3), p2)), p3), t3))

\* one coordinate of the Catmull-Rom formula, the float operations in the
\* order Python evaluates them
SplineCoord(p0, p1, p2, p3, t, t2, t3) ==
    FMul(FromRat(1, 2),
         FAdd(FAdd(FAdd(FMul(FromInt(2), p1),
                        FMul(FAdd(0 - p0, p2), t)),
                   FMul(FSub(FAdd(FSub(FMul(FromInt(2), p0),
                                       FMul(FromInt(5), p1)),
                                  FMul(FromInt(4), p2)), p3), t2)),
              FMul(FAdd(FSub(FAdd(0 - p0, FMul(FromInt(3), p1)),
                             FMul(FromInt(3), p2)), p3), t3)))

\* the point of the span p0..p3 at step t of num_segments
SplinePoint(p0, p1, p2, p3, t, num_segments) ==
    LET t_norm == FDiv(FromInt(t), FromInt(num_segments))
        t2 == FMul(t_norm, t_norm)
        t3 == FMul(t2, t_norm)
    IN  <<SplineCoord(p0[1], p1[1], p2[1], p3[1], t_norm, t2, t3),
          SplineCoord(p0[2], p1[2], p2[2], p3[2], t_norm, t2, t3)>>

\* the inner loop: the points of span i (from 1), t = 1..num_segments
SplineSpan(points, i, num_segments) ==
    [t \in 1..num_segments |->
        SplinePoint(points[i], points[i + 1], points[i + 2], points[i + 3],
                    t, num_segments)]

RECURSIVE SplineSpans(_, _, _)
\* the outer loop, from span i on: range(len(points) - 3)
SplineSpans(points, i, num_segments) ==
    IF i > Len(points) - 3 THEN <<>>
    ELSE SplineSpan(points, i, num_segments)
         \o SplineSpans(points, i + 1, num_segments)

\* the list that ends with the last point only
SmoothedOneTail(points, num_segments) ==
    <<points[1]>> \o SplineSpans(points, 1, num_segments)
    \o <<points[Len(points)]>>

\* the list built for an input that is not returned as it is
Smoothed(points, num_segments) ==
    <<points[1]>> \o SplineSpans(points, 1, num_segments)
    \o <<points[Len(points) - 1], points[Len(points)]>>

\* only an input of fewer than 2 points is returned as it is
CatmullRomSplineOfTwo(points, num_segments) ==
    IF Len(points) < 2 THEN points ELSE Smoothed(points, num_segments)

catmull_rom_spline(points, num_segments) ==
    IF Len(points) < 4 THEN points ELSE Smoothed(points, num_segments)

\* ------------------------------------------------------------- Renderer
\* the paint operations of one kind, one per item of a collection, in order
Painted(kind, items) ==
    [i \in 1..Len(items) |-> [kind |-> kind, index |-> i]]

RECURSIVE PaintedStrokes(_, _)
\* the paint operations of the strokes from index i on: a stroke without
\* points paints nothing
PaintedStrokes(ss, i) ==
    IF i > Len(ss) THEN <<>>
    ELSE (IF Len(ss[i].points) > 0
          THEN <<[kind |-> "stroke", index |-> i]>> ELSE <<>>)
         \o PaintedStrokes(ss, i + 1)

\* WhiteboardArea.on_draw: the paint operations of one render, in order
on_draw ==
    <<[kind |-> "background", index |-> 0]>>
    \o Painted("image", images)
    \o PaintedStrokes(strokes, 1)
    \o Painted("shape", shapes)
    \o (IF current_shape # None
        THEN <<[kind |-> "draft", index |-> 1]>> ELSE <<>>)
    \o Painted("text", text_items)
    \o (IF current_stroke # None /\ Len(current_stroke.points) >= 1
        THEN <<[kind |-> "draft", index |-> 2]>> ELSE <<>>)

\* the points on_draw joins for a stroke or a stroke draft of 2 points or
\* more
SmoothedPoints(points) ==
    IF Len(points) >= 4 THEN catmull_rom_spline(points, 5) ELSE points

\* the screen path on_draw strokes or fills for a list of points
StrokePath(points) ==
    LET smoothed_points == SmoothedPoints(points)
    IN  [j \in 1..Len(smoothed_points) |->
            world_to_screen(smoothed_points[j][1], smoothed_points[j][2])]

\* int(img['width'] * zoom) or int(img['height'] * zoom) is below 1:
\* scale_simple returns None and cairo_set_source_pixbuf raises TypeError
UnscalableImage(img) ==
    \/ FMul(FromInt(img.width), zoom) < Unit
    \/ FMul(FromInt(img.height), zoom) < Unit

\* a render that keeps the smoothed points in the strokes
OnDrawStoresSmoothed ==
    /\ strokes' = [i \in 1..Len(strokes) |->
                      [strokes[i] EXCEPT !.points = SmoothedPoints(@)]]
    /\ UNCHANGED sessionVars
    /\ ev' = Event("draw", <<>>, 0, 0)
    /\ raised' = FALSE
    /\ queued' = FALSE
    /\ UNCHANGED <<viewVars, panVars, draftVars, shapes, text_items, images,
                   brush_size, appVars, gesture, button1, nview>>

\* WhiteboardArea.on_draw, the handler of the draw signal: it paints and
\* changes no field; ev keeps the paths of the strokes and of the draft
OnDraw ==
    /\ UNCHANGED sessionVars
    /\ ev' = Event("draw",
                   <<[i \in 1..Len(strokes) |-> StrokePath(strokes[i].points)],
                     IF current_stroke # None
                     THEN StrokePath(current_stroke.points) ELSE <<>>>>,
                   0, 0)
    /\ raised' = \E i \in 1..Len(images) : UnscalableImage(images[i])
    /\ queued' = FALSE
    /\ UNCHANGED <<viewVars, panVars, draftVars, docVars, brush_size, appVars,
                   gesture, button1, nview>>

\* dict.get(key, default) on a persisted record
Get(data, key, default) == IF key \in DOMAIN data THEN data[key] ELSE default

\* the serialised strokes all marked as drawn by the brush
SerializedStrokesNoEraser(ss) ==
    [i \in DOMAIN ss |->
        [points |-> ss[i].points, color |-> ss[i].color, size |-> ss[i].size,
         is_eraser |-> FALSE]]

\* the stroke entries that get_board_data builds: stroke.get('is_eraser', False)
SerializedStrokes(ss) ==
    [i \in DOMAIN ss |->
        [points |-> ss[i].points, color |-> ss[i].color, size |-> ss[i].size,
         is_eraser |-> Get(ss[i], "is_eraser", FALSE)]]

\* a record that also holds the stroke in progress
GetBoardDataWithDraft ==
    [strokes |-> SerializedStrokes(IF current_stroke # None
                                   THEN Append(strokes, current_stroke)
                                   ELSE strokes),
     shapes |-> IF current_shape # None
                THEN Append(shapes, current_shape) ELSE shapes,
     text_items |-> text_items,
     offset_x |-> offset_x,
     offset_y |-> offset_y,
     zoom |-> zoom,
     brush_size |-> brush_size]

\* WhiteboardArea.get_board_data
get_board_data ==
    [strokes |-> SerializedStrokes(strokes),
     shapes |-> shapes,
     text_items |-> text_items,
     offset_x |-> offset_x,
     offset_y |-> offset_y,
     zoom |-> zoom,
     brush_size |-> brush_size]

\* a call of WhiteboardArea.get_board_data: it reads the board and returns
\* the record, which ev keeps
GetBoardData ==
    /\ UNCHANGED sessionVars
    /\ ev' = Event("serialize", get_board_data, 0, 0)
    /\ raised' = FALSE
    /\ queued' = FALSE
    /\ UNCHANGED <<viewVars, panVars, draftVars, docVars, brush_size, appVars,
                   gesture, button1, nview>>

\* the record that WhiteboardWindow.on_save_board hands to json.dump
SavedBoard ==
    get_board_data @@ [dark_mode |-> app_dark_mode, bg_color |-> bg_color,
                       brush_color |-> brush_color]

\* WhiteboardWindow.on_save_board: the file board_save/<board_name>.json is
\* opened for writing, whether it exists or not
OnSaveBoard ==
    /\ board_save' = [n \in DOMAIN board_save \cup {board_name} |->
                         IF n = board_name THEN SavedBoard ELSE board_save[n]]
    /\ own_file' = TRUE
    /\ ev' = Event("save", board_name, 0, 0)
    /\ raised' = FALSE /\ queued' = FALSE
    /\ UNCHANGED <<viewVars, panVars, draftVars, docVars, brush_size, appVars,
                   app_dark_mode, board_name, gesture, button1, nview>>

\* MainMenuWindow.on_delete_board answered YES for the tile of a stored board
OnDeleteBoard(name) ==
    /\ name \in DOMAIN board_save
    /\ board_save' = [n \in DOMAIN board_save \ {name} |-> board_save[n]]
    /\ ev' = Event("delete", name, 0, 0)
    /\ raised' = FALSE /\ queued' = FALSE
    /\ UNCHANGED <<viewVars, panVars, draftVars, docVars, brush_size, appVars,
                   app_dark_mode, board_name, own_file, gesture, button1,
                   nview>>

\* a record with a key missing is refused: the canvas stays as created
LoadBoardDataAllOrNothing(data) ==
    IF {"strokes", "shapes", "text_items", "offset_x", "offset_y", "zoom",
        "brush_size"} \subseteq DOMAIN data
    THEN [strokes |-> data.strokes, shapes |-> data.shapes,
          text_items |-> data.text_items, offset_x |-> data.offset_x,
          offset_y |-> data.offset_y, zoom |-> data.zoom,
          brush_size |-> data.brush_size, images |-> <<>>]
    ELSE [strokes |-> <<>>, shapes |-> <<>>, text_items |-> <<>>,
          offset_x |-> 0, offset_y |-> 0, zoom |-> FromInt(1),
          brush_size |-> DefaultBrushSize, images |-> <<>>]

\* the image entries of the record are loaded too
LoadBoardDataWithImages(data) ==
    [strokes |-> Get(data, "strokes", <<>>),
     shapes |-> Get(data, "shapes", <<>>),
     text_items |-> Get(data, "text_items", <<>>),
     offset_x |-> Get(data, "offset_x", 0),
     offset_y |-> Get(data, "offset_y", 0),
     zoom |-> Get(data, "zoom", FromInt(1)),
     brush_size |-> Get(data, "brush_size", DefaultBrushSize),
     images |-> Get(data, "images", <<>>)]

\* WhiteboardArea.load_board_data: the fields of the canvas after the call
load_board_data(data) ==
    [strokes |-> Get(data, "strokes", <<>>),
     shapes |-> Get(data, "shapes", <<>>),
     text_items |-> Get(data, "text_items", <<>>),
     offset_x |-> Get(data, "offset_x", 0),
     offset_y |-> Get(data, "offset_y", 0),
     zoom |-> Get(data, "zoom", FromInt(1)),
     brush_size |-> Get(data, "brush_size", DefaultBrushSize),
     images |-> <<>>]

\* WhiteboardWindow.__init__: a new WhiteboardArea is created for the session
\* and, for an existing board, WhiteboardWindow.load_board reads the stored
\* record data and hands it to WhiteboardArea.load_board_data
OpenWhiteboard(dark_mode, is_new, data, name) ==
    /\ board_name' = name
    /\ own_file' = ~is_new
    /\ app_dark_mode' = IF is_new THEN dark_mode
                        ELSE Get(data, "dark_mode", FALSE)
    /\ UNCHANGED board_save
    /\ is_panning' = FALSE /\ pan_start_x' = 0 /\ pan_start_y' = 0
    /\ current_stroke' = None /\ current_shape' = None
    /\ shape_start_x' = 0 /\ shape_start_y' = 0
    /\ IF is_new
       THEN /\ bg_color' = IF dark_mode THEN Black ELSE White
            /\ brush_color' = IF dark_mode THEN White ELSE Black
            /\ strokes' = <<>> /\ shapes' = <<>> /\ text_items' = <<>>
            /\ images' = <<>>
            /\ offset_x' = 0 /\ offset_y' = 0
            /\ zoom' = FromInt(1)
            /\ brush_size' = DefaultBrushSize
            /\ queued' = FALSE
       ELSE LET board == load_board_data(data)
            IN  /\ bg_color' = Get(data, "bg_color", White)
                /\ brush_color' = Get(data, "brush_color", Black)
                /\ strokes' = board.strokes
                /\ shapes' = board.shapes
                /\ text_items' = board.text_items
                /\ images' = board.images
                /\ offset_x' = board.offset_x
                /\ offset_y' = board.offset_y
                /\ zoom' = board.zoom
                /\ brush_size' = board.brush_size
                /\ queued' = TRUE
    /\ raised' = FALSE
    /\ ev' = Event("open", IF is_new THEN None ELSE data, 0, 0)
    /\ gesture' = NoGesture
    /\ nview' = 0
    /\ button1' = FALSE
    /\ UNCHANGED <<eraser_mode, current_tool, current_shape_type>>

\* ------------------------------------------------------------ environment
\* pointer positions delivered by the toolkit, in screen pixels
Positions == {<<0, 0>>, <<5, 3>>, <<10, 0>>}

Origin == {<<0, 0>>}

Anchor == {<<5, 3>>}

Track == {<<5, 3>>, <<10, 0>>}

Buttons == {1, 2, 3}

ScrollInputs == {<<"UP", 0>>, <<"DOWN", 0>>, <<"SMOOTH", 0 - 1>>,
                 <<"SMOOTH", 1>>, <<"SMOOTH", 0>>, <<"LEFT", 0>>}

WheelInputs == {<<"UP", 0>>, <<"DOWN", 0>>}

Texts == {<<>>, <<" ">>, <<"a">>, <<" ", "a", "\t">>}

\* what the text dialog can return: it is shown for the text tool only
Dialogs ==
    IF current_tool = "text"
    THEN {<<"CANCEL", <<>>>>} \cup {<<"OK", t>> : t \in Texts}
    ELSE {<<"CANCEL", <<>>>>}

Colors == {Red}

BrushSizes == {50}

SelectableTypes == {"rect", "circle"}

\* zoom factors that scroll ticks reach from 1.0: pinned at either bound, and
\* one tick away from being clamped
SavedZooms ==
    {max_zoom, ClampedZoom(ClampedZoom(max_zoom, ZoomOut), ZoomIn),
     min_zoom, ClampedZoom(min_zoom, ZoomIn)}

\* a record written by on_save_board in an earlier session with zoom z
SavedRecord(z) ==
    [zoom |-> z, offset_x |-> FromInt(10), offset_y |-> FromInt(20),
     brush_size |-> 7, strokes |-> <<>>, shapes |-> <<>>,
     text_items |-> <<>>, dark_mode |-> FALSE,
     bg_color |-> White, brush_color |-> Black]

SavedRecords == { SavedRecord(z) : z \in SavedZooms }

\* records that on_save_board cannot have written
ForeignRecords ==
    { [zoom |-> FromInt(10), brush_size |-> 0],
      [zoom |-> 0],
      [brush_size |-> 51],
      [images |-> <<[x |-> 0, y |-> 0, width |-> 1, height |-> 1]>>,
       offset_x |-> FromInt(10)],
      [strokes |-> <<[points |-> <<<<0, 0>>>>, color |-> White, size |-> 3,
                      is_eraser |-> TRUE]>>,
       bg_color |-> Black, brush_color |-> White, dark_mode |-> TRUE] }

\* the board of the round-trip test of the design: two strokes, a rectangle
\* and a text item, offset (10, 20), zoom 1.5, brush size 7, as on_save_board
\* writes it
SampleRecord ==
    [strokes |-> <<[points |-> <<<<0, 0>>, <<FromInt(4), FromInt(2)>>>>,
                    color |-> Black, size |-> 3, is_eraser |-> FALSE],
                   [points |-> <<<<FromInt(1), FromInt(1)>>>>,
                    color |-> White, size |-> 7, is_eraser |-> TRUE]>>,
     shapes |-> <<[type |-> "rect", x |-> 0, y |-> 0, w |-> FromInt(8),
                   h |-> FromInt(6), color |-> Red, size |-> 3]>>,
     text_items |-> <<[text |-> <<"a">>, x |-> FromInt(2), y |-> FromInt(3),
                       color |-> Black, font_size |-> 28]>>,
     offset_x |-> FromInt(10), offset_y |-> FromInt(20),
     zoom |-> FromRat(3, 2), brush_size |-> 7,
     dark_mode |-> FALSE, bg_color |-> White, brush_color |-> Black]

\* the keys that load_board_data reads
BoardKeys ==
    {"strokes", "shapes", "text_items", "offset_x", "offset_y", "zoom",
     "brush_size"}

\* the sample board with any of the keys of the canvas missing
PartialRecords ==
    { [k \in (DOMAIN SampleRecord \ BoardKeys) \cup keys |-> SampleRecord[k]] :
        keys \in SUBSET BoardKeys }

\* the sizes of the pixbufs dropped on the canvas
ImageSizes ==
    {<<500, 500>>, <<501, 100>>, <<1000, 600>>, <<1, 554>>, <<3000, 2000>>}

\* three pointer positions on a horizontal line, and one off it
Curve == {<<0, 16>>, <<4, 16>>, <<12, 16>>, <<8, 3>>}

\* the values of num_segments: what on_draw passes, smaller ones, none, and
\* a negative one
SegmentCounts == (0 - 1)..MaxSegments

\* a board saved after one wheel tick up
ZoomedRecord == SavedRecord(ClampedZoom(FromInt(1), ZoomIn))

\* the sample board saved after zooming about a pixel off the origin and
\* panning: the offset is no whole number of pixels
PannedRecord ==
    [SampleRecord EXCEPT !.offset_x = FromRat(4095, 256),
                         !.offset_y = 0 - FromRat(33, 256)]

\* the sample board with one stroke of four points, which on_draw smooths
CurvedRecord ==
    [SampleRecord EXCEPT
        !.strokes = <<[points |-> <<<<0, 0>>, <<FromInt(4), FromInt(2)>>,
                                    <<FromInt(8), 0>>, <<FromInt(4), 0>>>>,
                        color |-> Black, size |-> 3, is_eraser |-> FALSE]>>]

\* the files of one drop: every sequence of at most MaxUris files, each
\* undecodable or an image larger or smaller than max_size
DroppedFiles == {Undecodable, Decoded(1000, 600), Decoded(20, 10)}

Drops ==
    UNION { [1..n -> DroppedFiles] : n \in 1..MaxUris }

\* the bounds of the model, as guards on the events delivered; the primary
\* button goes down only while one of `tools` is the active tool
PressAllowed(button, tools) ==
    /\ button = 1 => ~button1 /\ current_tool \in tools
    /\ button = 1 /\ ~is_panning =>
        Len(IF current_tool = "text" THEN text_items
            ELSE IF current_tool = "shape" THEN shapes
            ELSE strokes) < MaxEntities

MotionAllowed(x, y, budget, points) ==
    /\ is_panning =>
        /\ nview < budget
        /\ Abs(FAdd(offset_x, FSub(x, pan_start_x))) <= MaxOffset * Unit
        /\ Abs(FAdd(offset_y, FSub(y, pan_start_y))) <= MaxOffset * Unit
    /\ ~is_panning /\ button1 /\ current_shape = None /\ current_stroke # None
        => Len(current_stroke.points) < points

ScrollStep(inputs, positions, budget) ==
    \E s \in inputs, p \in positions :
        /\ nview < budget
        /\ OnScroll(s[1], s[2], FromInt(p[1]), FromInt(p[2]))

PressStep(buttons, positions, tools) ==
    \E button \in buttons, p \in positions, dialog \in Dialogs :
        /\ PressAllowed(button, tools)
        /\ OnButtonPress(button, FromInt(p[1]), FromInt(p[2]),
                         dialog[1], dialog[2])

\* a primary-down on the loaded board, which may get MaxEntities more
\* entities than the file held
EditPressStep(positions) ==
    \E p \in positions, dialog \in Dialogs :
        /\ ~button1
        /\ strokes # <<>>
        /\ Len(strokes) + Len(shapes) + Len(text_items)
               < Len(CurvedRecord.strokes) + Len(CurvedRecord.shapes)
                 + Len(CurvedRecord.text_items) + MaxEntities
        /\ OnButtonPress(1, FromInt(p[1]), FromInt(p[2]),
                         dialog[1], dialog[2])

MotionStep(positions, budget, points) ==
    \E p \in positions :
        /\ MotionAllowed(FromInt(p[1]), FromInt(p[2]), budget, points)
        /\ OnMotion(FromInt(p[1]), FromInt(p[2]))

ReleaseStep(buttons) ==
    \E button \in buttons :
        /\ button = 1 => button1
        /\ OnButtonRelease(button)

ToolStep ==
    \/ OnSelectBrush
    \/ OnToggleEraser
    \/ OnSelectShape
    \/ \E t \in SelectableTypes : OnSelectShapeType(t)
    \/ OnSelectText

StyleStep ==
    \/ \E c \in Colors : OnColorSet(c)
    \/ \E v \in BrushSizes : OnBrushSizeChanged(v)

OpenNew == \E dark_mode \in BOOLEAN : OpenWhiteboard(dark_mode, TRUE, <<>>,
        DefaultName)

OpenSaved == \E data \in SavedRecords : OpenWhiteboard(FALSE, FALSE, data,
        DefaultName)

OpenForeign == \E data \in ForeignRecords : OpenWhiteboard(FALSE, FALSE, data,
        DefaultName)

OpenPartial == \E data \in PartialRecords : OpenWhiteboard(FALSE, FALSE, data,
        DefaultName)

OpenSample == OpenWhiteboard(FALSE, FALSE, SampleRecord,
        DefaultName)

OpenZoomed == OpenWhiteboard(FALSE, FALSE, ZoomedRecord,
        DefaultName)

OpenPanned == OpenWhiteboard(FALSE, FALSE, PannedRecord,
        DefaultName)

OpenCurved == OpenWhiteboard(FALSE, FALSE, CurvedRecord,
        DefaultName)

ImageStep(sizes) ==
    \E size \in sizes, p \in Anchor :
        /\ Len(images) < MaxEntities
        /\ OnDragDataReceived(size[1], size[2], FromInt(p[1]), FromInt(p[2]))

DropStep ==
    \E files \in Drops, p \in Anchor :
        /\ Len(images) < MaxUris
        /\ OnDragDataReceivedUris(files, FromInt(p[1]), FromInt(p[2]))

\* the view: scroll ticks and pan gestures over boards the program wrote, with
\* clicks of the brush in between (no move is delivered while it draws, and
\* the brush is put down on an empty stroke list only)
NextView ==
    \/ ScrollStep(ScrollInputs, Positions, MaxViewEvents)
    \/ /\ strokes = <<>>
       /\ PressStep({1}, Origin, Tools)
    \/ PressStep({2, 3}, Origin, Tools)
    \/ MotionStep(Positions, MaxViewEvents, 0)
    \/ ReleaseStep(Buttons)
    \/ OpenSaved

SpecView == Init /\ [][NextView]_vars

\* brush gestures that start at one pixel and move over Track, with a
\* wheel tick in between (the secondary button is pressed but not dragged)
NextBrush ==
    \/ ScrollStep(WheelInputs, Origin, MaxDrawViewEvents)
    \/ PressStep({1, 3}, Anchor, {"brush"})
    \/ MotionStep(Track, 0, MaxPoints)
    \/ ReleaseStep({1, 3})
    \/ OnClear

SpecBrush == Init /\ [][NextBrush]_vars

\* shape gestures of the shape tool, with a wheel tick in between (the
\* secondary button is pressed but not dragged)
NextShape ==
    \/ ScrollStep(WheelInputs, Origin, MaxDrawViewEvents)
    \/ PressStep({1, 3}, Positions, {"shape"})
    \/ MotionStep(Positions, 0, MaxPoints)
    \/ ReleaseStep({1, 3})
    \/ \E t \in SelectableTypes : OnSelectShapeType(t)
    \/ OnClear

SpecShape == Init /\ [][NextShape]_vars

\* images dropped on new and loaded boards, with a wheel tick in between
NextImage ==
    \/ ImageStep(ImageSizes)
    \/ ScrollStep(WheelInputs, Origin, MaxDrawViewEvents)
    \/ OnClear
    \/ OpenNew
    \/ OpenSaved
    \/ OpenForeign

SpecImage == Init /\ [][NextImage]_vars

\* files dropped on new and loaded boards that hold a stroke, at any zoom
NextDrop ==
    \/ DropStep
    \/ PressStep({1}, Anchor, {"brush"})
    \/ ReleaseStep({1})
    \/ OnClear
    \/ OpenNew
    \/ OpenForeign

SpecDrop == Init /\ [][NextDrop]_vars

\* one stroke drawn along the curve and rendered while it grows, on the
\* first board and on a zoomed one
NextSmooth ==
    \/ PressStep({1}, Curve, {"brush"})
    \/ MotionStep(Curve, 0, MaxSplinePoints)
    \/ OnDraw
    \/ OpenZoomed

SpecSmooth == Init /\ [][NextSmooth]_vars

\* gestures of the brush and of the shape tool, the tool switched, the wheel
\* turned and the secondary button used at any moment of a gesture
NextGesture ==
    \/ ScrollStep(WheelInputs, Origin, MaxDrawViewEvents)
    \/ /\ Len(strokes) + Len(shapes) < MaxEntities
       /\ PressStep({1, 3}, Anchor, {"brush", "shape"})
    \/ MotionStep(Track, MaxDrawViewEvents, MaxViewPoints + 1)
    \/ ReleaseStep({1, 3})
    \/ OnSelectBrush
    \/ OnSelectShape

SpecGesture == Init /\ [][NextGesture]_vars

\* pan gestures of one or more moves on the first board and on a board
\* saved with a fractional offset, with wheel ticks before and between
NextPan ==
    \/ PressStep({3}, Positions, Tools)
    \/ MotionStep(Positions, MaxViewEvents, 0)
    \/ ReleaseStep({3})
    \/ ScrollStep(WheelInputs, Origin, MaxViewEvents)
    \/ OpenPanned

SpecPan == Init /\ [][NextPan]_vars

\* boards loaded from files with and without every key, and dots drawn on
\* them with the brush and the eraser
NextLoad ==
    \/ OpenPartial
    \/ OpenNew
    \/ PressStep({1}, Anchor, {"brush"})
    \/ ReleaseStep({1})
    \/ OnToggleEraser

SpecLoad == Init /\ [][NextLoad]_vars

\* strokes drawn with the brush and with the eraser, in light and dark
\* sessions and on a loaded board, the brush colour changed at any moment
NextErase ==
    \/ PressStep({1}, Anchor, {"brush"})
    \/ MotionStep(Track, 0, MaxViewPoints)
    \/ ReleaseStep({1})
    \/ OnToggleEraser
    \/ OnSelectBrush
    \/ (\E c \in Colors : OnColorSet(c))
    \/ OnClear
    \/ OpenNew
    \/ OpenSample

SpecErase == Init /\ [][NextErase]_vars

\* clicks of the text tool, answered with any text or cancelled, the brush
\* size and colour changed in between, on new boards and on boards of any file
NextText ==
    \/ OnSelectText
    \/ PressStep({1}, Anchor, {"text"})
    \/ StyleStep
    \/ OnClear
    \/ OpenNew
    \/ OpenForeign

SpecText == Init /\ [][NextText]_vars

\* a board drawn with the three tools, with an image dropped on it
NextDoc ==
    \/ OnSelectBrush
    \/ OnSelectShape
    \/ OnSelectText
    \/ PressStep({1}, Origin, Tools)
    \/ MotionStep(Track, 0, MaxViewPoints)
    \/ ReleaseStep({1})
    \/ ImageStep({<<1000, 600>>})
    \/ OnClear

SpecDoc == Init /\ [][NextDoc]_vars

\* a loaded board edited with the three tools, zoomed, rendered and
\* serialized, cleared and loaded again
NextEdit ==
    \/ OnSelectBrush
    \/ OnSelectShape
    \/ OnSelectText
    \/ EditPressStep(Origin)
    \/ MotionStep(Track, 0, MaxViewPoints)
    \/ ReleaseStep({1})
    \/ ScrollStep(WheelInputs, Origin, MaxDrawViewEvents)
    \/ OnDraw
    \/ GetBoardData
    \/ OnClear
    \/ OpenCurved

SpecEdit == Init /\ [][NextEdit]_vars

\* gestures of the brush, the eraser and the shape tool, with the tool, the
\* shape type, the colour and the brush size changed at any moment of them
NextStyle ==
    \/ /\ Len(strokes) + Len(shapes) < MaxEntities
       /\ PressStep({1}, Origin, {"brush", "shape"})
    \/ MotionStep(Track, 0, MaxViewPoints)
    \/ ReleaseStep({1})
    \/ ToolStep
    \/ StyleStep

SpecStyle == Init /\ [][NextStyle]_vars

\* primary-button gestures of the brush and the shape tool that begin on an
\* empty board, interleaved with moves, pan gestures, wheel ticks, selections
\* of the brush and the shape tool, and clears
NextDraft ==
    \/ /\ strokes = <<>> /\ shapes = <<>>
       /\ PressStep({1}, Origin, {"brush", "shape"})
    \/ PressStep({3}, Origin, Tools)
    \/ MotionStep(Track, MaxDrawViewEvents, MaxViewPoints)
    \/ ReleaseStep({1, 3})
    \/ ScrollStep(WheelInputs, Origin, MaxDrawViewEvents)
    \/ OnSelectBrush
    \/ OnSelectShape
    \/ OnClear

SpecDraft == Init /\ [][NextDraft]_vars

\* sessions that follow each other in one run of the application: closing a
\* whiteboard window shows the main menu again, which opens the next window
\* on a new or a saved board
NextSession ==
    \/ ToolStep
    \/ /\ Len(strokes) + Len(shapes) + Len(text_items) < MaxEntities
       /\ PressStep({1}, Origin, Tools)
    \/ ReleaseStep({1})
    \/ OpenNew
    \/ OpenSaved

SpecSession == Init /\ [][NextSession]_vars

\* the names typed into the dialog of on_new_board_clicked
BoardNames == {DefaultName, "plan"}

\* MainMenuWindow.on_new_board_clicked answered OK
NewBoard ==
    \E name \in BoardNames, dark_mode \in BOOLEAN :
        OpenWhiteboard(dark_mode, TRUE, <<>>, name)

\* MainMenuWindow.on_board_clicked on the tile of a board stored in this run
OpenStored ==
    \E name \in DOMAIN board_save :
        OpenWhiteboard(FALSE, FALSE, board_save[name], name)

DeleteStep == \E name \in DOMAIN board_save : OnDeleteBoard(name)

\* the whiteboard window is shown: the main menu, where boards are deleted,
\* is hidden while it is, and shown again when it is closed
WindowShown == ev.kind # "delete"

\* boards created, drawn on, saved, closed, opened again and deleted
NextStore ==
    \/ NewBoard
    \/ OpenStored
    \/ DeleteStep
    \/ WindowShown /\ OnSaveBoard
    \/ /\ WindowShown
       /\ Len(strokes) < MaxEntities
       /\ PressStep({1}, Origin, {"brush"})
    \/ WindowShown /\ ReleaseStep({1})

SpecStore == Init /\ [][NextStore]_vars

\* the sessions of one run of the application: any board file may be opened
Next ==
    \/ ScrollStep(WheelInputs, Origin, MaxDrawViewEvents)
    \/ PressStep(Buttons, Origin, Tools)
    \/ MotionStep(Positions, MaxDrawViewEvents, MaxViewPoints)
    \/ ReleaseStep(Buttons)
    \/ StyleStep
    \/ OnClear
    \/ OpenNew
    \/ OpenSaved
    \/ OpenForeign

Spec == Init /\ [][Next]_vars

\* =================================================================== claims
IsScroll(e) == e.kind = "scroll"

IsPress(e, button) == e.kind = "press" /\ e.arg = button

IsRelease(e, button) == e.kind = "release" /\ e.arg = button

\* C1: from a zoom in [0.1, 5.0], scroll events interleaved with pointer
\* events keep the zoom in [0.1, 5.0], and no handler raises
C1_ZoomStaysClamped ==
    /\ min_zoom <= zoom
    /\ zoom <= max_zoom
    /\ ~raised

\* a tick that changed the zoom and ended on the upper bound
C1_Witness == IsScroll(ev) /\ queued /\ zoom = max_zoom /\ ev.arg = ZoomIn

\* C2: in every reachable state, also after a board was loaded, zoom is in
\* [0.1, 5.0] and brush_size is an integer in [1, 50]
C2_ViewStateBounded ==
    /\ min_zoom <= zoom
    /\ zoom <= max_zoom
    /\ brush_size \in 1..50

\* C3: a scroll that leaves the zoom where it was leaves the offset where it
\* was; a zoom-out tick at 0.1 and a zoom-in tick at 5.0 change nothing of
\* the view
C3_NoDriftAtBounds ==
    [][IsScroll(ev') =>
          /\ zoom' = zoom => offset_x' = offset_x /\ offset_y' = offset_y
          /\ zoom = min_zoom /\ ev'.arg = ZoomOut => UNCHANGED viewVars
          /\ zoom = max_zoom /\ ev'.arg = ZoomIn => UNCHANGED viewVars]_vars

\* a zoom-out tick was delivered at the lower bound, off the origin of the view
C3_Witness ==
    /\ IsScroll(ev) /\ ev.arg = ZoomOut /\ zoom = min_zoom /\ ~queued
    /\ ev.y # offset_y

\* a and b differ by no more than the rounding of a few float operations on
\* operands of magnitude mag / Unit, seen through the zoom z: five times
\* (2^-MantBits of the magnitude + the spacings of the format)
WithinRounding(a, b, z, mag) ==
    Abs(a - b) * Abs(z) <= 5 * (mag \div 2^MantBits + Unit + Abs(z))

\* the world point under the focus of the scroll ev', before and after it
FocusBefore == screen_to_world(ev'.x, ev'.y)

FocusAfter == ScreenToWorldAt(ev'.x, ev'.y, offset_x', offset_y', zoom')

\* C4 as stated: a scroll that changes the zoom keeps the world point under
\* the focus pixel exactly
C4_FocusKeptExactly ==
    [][IsScroll(ev') /\ zoom' # zoom => FocusAfter = FocusBefore]_vars

\* C4: a scroll that changes the zoom keeps the world point under the focus
\* pixel up to the rounding of the float operations of on_scroll
C4_FocusKeptWithinRounding ==
    [][IsScroll(ev') /\ zoom' # zoom =>
          /\ WithinRounding(FocusAfter[1], FocusBefore[1], zoom',
                            Abs(FocusBefore[1] * zoom')
                            + Unit * (Abs(offset_x) + Abs(ev'.x) + Abs(offset_x')))
          /\ WithinRounding(FocusAfter[2], FocusBefore[2], zoom',
                            Abs(FocusBefore[2] * zoom')
                            + Unit * (Abs(offset_y) + Abs(ev'.y) + Abs(offset_y')))]_vars

\* a tick off the origin of the view changed the zoom of a panned view
C4_Witness ==
    /\ IsScroll(ev) /\ queued /\ zoom # FromInt(1)
    /\ offset_x # 0 /\ ev.x # 0 /\ nview >= 2

\* the points of a sequence of points
PointsOf(points) == {points[j] : j \in DOMAIN points}

\* the world points the round trip is tried on: those of the document and of
\* the draft, and two fixed ones
ProbePoints ==
    {<<FromRat(1, 3), FromInt(7)>>, <<FromInt(0 - 100), FromRat(22, 7)>>}
    \cup UNION {PointsOf(strokes[i].points) : i \in DOMAIN strokes}
    \cup (IF current_stroke # None THEN PointsOf(current_stroke.points) ELSE {})

RoundTrip(p) ==
    LET s == world_to_screen(p[1], p[2]) IN screen_to_world(s[1], s[2])

\* C5 as stated: in every state reached by pan and zoom operations,
\* screen_to_world(world_to_screen(p)) is exactly p
C5_RoundTripExact == \A p \in ProbePoints : RoundTrip(p) = p

\* C5: in every state reached by pan and zoom operations,
\* screen_to_world(world_to_screen(p)) is p up to the rounding of the four
\* float operations of the round trip
C5_RoundTripWithinRounding ==
    \A p \in ProbePoints :
        /\ WithinRounding(RoundTrip(p)[1], p[1], zoom,
                          Abs(p[1] * zoom) + Unit * Abs(offset_x))
        /\ WithinRounding(RoundTrip(p)[2], p[2], zoom,
                          Abs(p[2] * zoom) + Unit * Abs(offset_y))

\* a view that was zoomed and panned, with a point drawn before that
C5_Witness ==
    /\ zoom # FromInt(1) /\ offset_x # 0 /\ offset_y # 0
    /\ nview >= 2 /\ ev.kind = "motion" /\ queued
    /\ strokes # <<>>

\* C6: on primary-up with a shape draft, the draft is appended to shapes iff
\* |w| > 5 or |h| > 5 in world units, whatever the zoom (an extent of exactly
\* 5 is discarded); otherwise shapes is unchanged; the draft is gone either way
C6_ShapeCommitThreshold ==
    [][IsRelease(ev', 1) /\ current_shape # None =>
          /\ current_shape' = None
          /\ shapes' = IF \/ Abs(current_shape.w) > FromInt(5)
                          \/ Abs(current_shape.h) > FromInt(5)
                       THEN Append(shapes, current_shape)
                       ELSE shapes]_vars

\* a drag of 5 by 3 pixels was committed because the zoom was below 1
C6_Witness ==
    /\ IsRelease(ev, 1) /\ queued /\ zoom < FromInt(1)
    /\ shapes # <<>>
    /\ Abs(shapes[1].w) > FromInt(5) /\ Abs(shapes[1].w) < FromInt(6)
    /\ Abs(shapes[1].h) < FromInt(5)

\* C7: a brush gesture (primary-down, k moves with the button held,
\* primary-up) on a non-panning canvas commits exactly one stroke, whose
\* points are the world coordinates of the down and of every move, in order;
\* no committed stroke has zero points
C7_BrushGesture ==
    /\ [](\A i \in DOMAIN strokes : Len(strokes[i].points) > 0)
    /\ [][IsRelease(ev', 1) /\ gesture.kind = "brush" =>
             /\ Len(strokes') = Len(strokes) + 1
             /\ SubSeq(strokes', 1, Len(strokes)) = strokes
             /\ strokes'[Len(strokes')].points = gesture.pts
             /\ current_stroke' = None]_vars

\* a gesture of three points, the first one delivered twice, was committed
C7_Witness ==
    /\ IsRelease(ev, 1) /\ strokes # <<>>
    /\ Len(strokes[1].points) = 3
    /\ strokes[1].points[1] = strokes[1].points[2]
    /\ strokes[1].points[3] # strokes[1].points[2]

\* C8: a shape gesture (primary-down at world point A, moves ending at world
\* point B, primary-up) that passes the threshold commits exactly one shape of
\* the active shape type, anchored at A, with the signed extent B - A
C8_ShapeGesture ==
    [][/\ IsRelease(ev', 1)
       /\ gesture.kind = "shape" /\ Len(gesture.pts) = 2
       /\ \/ Abs(FSub(gesture.pts[2][1], gesture.pts[1][1])) > FromInt(5)
          \/ Abs(FSub(gesture.pts[2][2], gesture.pts[1][2])) > FromInt(5)
       => /\ Len(shapes') = Len(shapes) + 1
          /\ SubSeq(shapes', 1, Len(shapes)) = shapes
          /\ LET shape == shapes'[Len(shapes')]
             IN  /\ shape.type = current_shape_type
                 /\ shape.x = gesture.pts[1][1]
                 /\ shape.y = gesture.pts[1][2]
                 /\ shape.w = FSub(gesture.pts[2][1], gesture.pts[1][1])
                 /\ shape.h = FSub(gesture.pts[2][2], gesture.pts[1][2])]_vars

\* a circle dragged towards the left was committed
C8_Witness ==
    /\ IsRelease(ev, 1) /\ shapes # <<>>
    /\ shapes[1].type = "circle"
    /\ shapes[1].w < 0 - FromInt(5)

\* C9: while panning, a primary-down or primary-up creates, commits or
\* discards no draft and leaves the stroke and shape collections alone
C9_PrimaryIgnoredWhilePanning ==
    [][is_panning /\ (IsPress(ev', 1) \/ IsRelease(ev', 1)) =>
          UNCHANGED <<current_stroke, current_shape, strokes, shapes>>]_vars

\* C10: panning is never active while a stroke draft or a shape draft exists
C10_PanningExcludesDrafts ==
    ~(is_panning /\ (current_stroke # None \/ current_shape # None))

IsOpen(e) == e.kind = "open"

\* an open that loaded a stored record (not a new board)
IsLoad(e) == IsOpen(e) /\ e.arg # None

IsImage(e) == e.kind = "image"

\* C11: in every document state, load_board_data(get_board_data()) on a
\* fresh canvas gives the stroke, shape and text collections back element for
\* element and in order, and the same offset_x, offset_y, zoom and brush_size
C11_SerializationRoundTrip ==
    LET board == load_board_data(get_board_data)
    IN  /\ Len(board.strokes) = Len(strokes)
        /\ \A i \in DOMAIN strokes : board.strokes[i] = strokes[i]
        /\ Len(board.shapes) = Len(shapes)
        /\ \A i \in DOMAIN shapes : board.shapes[i] = shapes[i]
        /\ Len(board.text_items) = Len(text_items)
        /\ \A i \in DOMAIN text_items : board.text_items[i] = text_items[i]
        /\ board.offset_x = offset_x
        /\ board.offset_y = offset_y
        /\ board.zoom = zoom
        /\ board.brush_size = brush_size

\* a dot was drawn with the eraser on a loaded board that has a rectangle, a
\* text item, a panned and zoomed view and brush size 7
C11_Witness ==
    /\ IsRelease(ev, 1)
    /\ strokes # <<>> /\ strokes[Len(strokes)].is_eraser
    /\ shapes # <<>> /\ text_items # <<>>
    /\ offset_x = FromInt(10) /\ offset_y = FromInt(20)
    /\ zoom = FromRat(3, 2) /\ brush_size = 7

\* C12: the record of get_board_data has no image entry whatever the image
\* collection holds, and after a load the image collection is empty whatever
\* the loaded record contains
C12_ImagesNotPersisted ==
    /\ []("images" \notin DOMAIN get_board_data)
    /\ [](load_board_data(get_board_data).images = <<>>)
    /\ [][IsLoad(ev') => images' = <<>>]_vars

\* a record that holds an image entry was loaded
C12_Witness ==
    /\ IsLoad(ev) /\ "images" \in DOMAIN ev.arg /\ ev.arg.images # <<>>
    /\ images = <<>>

\* C13: load_board_data defaults each of its seven keys on its own: a key
\* missing from the record takes its default (empty collection, offset 0,
\* zoom 1.0, brush size 3), a key present takes the value of the record, and
\* no load is refused
C13_FieldsDefaultIndependently ==
    [][IsLoad(ev') =>
          LET data == ev'.arg
              Has(key) == key \in DOMAIN data
          IN  /\ ~raised'
              /\ strokes' = IF Has("strokes") THEN data.strokes ELSE <<>>
              /\ shapes' = IF Has("shapes") THEN data.shapes ELSE <<>>
              /\ text_items' = IF Has("text_items") THEN data.text_items ELSE <<>>
              /\ offset_x' = IF Has("offset_x") THEN data.offset_x ELSE 0
              /\ offset_y' = IF Has("offset_y") THEN data.offset_y ELSE 0
              /\ zoom' = IF Has("zoom") THEN data.zoom ELSE FromInt(1)
              /\ brush_size' = IF Has("brush_size") THEN data.brush_size ELSE 3]_vars

\* a record with only the strokes and the zoom was loaded
C13_Witness ==
    /\ IsLoad(ev) /\ DOMAIN ev.arg \cap BoardKeys = {"strokes", "zoom"}
    /\ Len(strokes) = 2 /\ zoom = FromRat(3, 2)
    /\ shapes = <<>> /\ text_items = <<>>
    /\ offset_x = 0 /\ offset_y = 0 /\ brush_size = 3

\* the recorded size n' of a source size n is n * 500 / longer, out by the
\* truncation to an integer and the rounding of the two float operations
WithinTruncation(recorded, n, longer) ==
    Abs(recorded * longer - 500 * n)
        <= longer + (500 * longer) \div 2^(MantBits - 2)

\* C17: for a source image of positive width and height, add_image records
\* a width and a height that are both <= 500; the source size when neither
\* exceeds 500, else the source size scaled by the one factor
\* min(500/width, 500/height), up to integer truncation
C17_ImageDownscaled ==
    [][IsImage(ev') /\ queued' =>
          LET width == ev'.arg[1]
              height == ev'.arg[2]
              img == images'[Len(images')]
          IN  /\ Len(images') = Len(images) + 1
              /\ img.width <= 500 /\ img.height <= 500
              /\ width <= 500 /\ height <= 500 =>
                    img.width = width /\ img.height = height
              /\ width > 500 \/ height > 500 =>
                    /\ WithinTruncation(img.width, width, Max(width, height))
                    /\ WithinTruncation(img.height, height, Max(width, height))]_vars

\* a 1000 x 600 image was recorded as 500 x 300
C17_Witness ==
    /\ IsImage(ev) /\ ev.arg = <<1000, 600>>
    /\ images # <<>>
    /\ images[Len(images)].width = 500 /\ images[Len(images)].height = 300

\* the colour and the eraser tag of a stroke
Ink(stroke) == <<stroke.color, stroke.is_eraser>>

\* C14: in every state reached by drawing with and without the eraser, every
\* stroke of the collection tagged is_eraser has the background colour of the
\* session, and every stroke not tagged has the brush colour that was current
\* when its gesture started: a draft takes its colour and tag at the
\* primary-down, keeps them while it is drawn and is committed with them
C14_EraserStrokesHaveBackground ==
    /\ [](\A i \in DOMAIN strokes :
            strokes[i].is_eraser => strokes[i].color = bg_color)
    /\ [][/\ IsPress(ev', 1) /\ current_stroke = None /\ current_stroke' # None
             => Ink(current_stroke') =
                    <<IF eraser_mode THEN bg_color ELSE brush_color, eraser_mode>>
          /\ current_stroke # None /\ current_stroke' # None
             => Ink(current_stroke') = Ink(current_stroke)
          /\ IsRelease(ev', 1) /\ current_stroke # None
             => /\ Len(strokes') = Len(strokes) + 1
                /\ Ink(strokes'[Len(strokes')]) = Ink(current_stroke)
                /\ \A i \in DOMAIN strokes : strokes'[i] = strokes[i]]_vars

\* an eraser stroke was committed in a dark session after the brush colour
\* was changed
C14_Witness ==
    /\ IsRelease(ev, 1) /\ strokes # <<>>
    /\ bg_color = Black /\ brush_color = Red /\ eraser_mode
    /\ Ink(strokes[Len(strokes)]) = <<Black, TRUE>>

\* C15: after the background colour changed under committed strokes (a board
\* loaded with another background), every stroke tagged is_eraser has the new
\* background colour and every other stroke has the colour it had
C15_EraserStrokesRecolored ==
    [][IsLoad(ev') /\ bg_color' # bg_color =>
          \A i \in DOMAIN strokes' :
              strokes'[i].color = IF strokes'[i].is_eraser THEN bg_color'
                                  ELSE ev'.arg.strokes[i].color]_vars

\* the text has a character that is not whitespace
HasInk(text) == \E i \in DOMAIN text : text[i] \notin Whitespace

\* C16: add_text appends a text item iff the text has a character that is
\* not whitespace, else it leaves the collection alone; the appended item
\* has font_size = max(12, brush_size * 4) for the brush size of the call,
\* so every text item has a text with such a character and font_size >= 12
C16_TextAddedIffNotBlank ==
    /\ [](\A i \in DOMAIN text_items :
            HasInk(text_items[i].text) /\ text_items[i].font_size >= 12)
    /\ [][IsPress(ev', 1) /\ ev'.x # <<>> /\ ev'.x[1] = "OK" =>
             IF HasInk(ev'.x[2])
             THEN /\ Len(text_items') = Len(text_items) + 1
                  /\ \A i \in DOMAIN text_items : text_items'[i] = text_items[i]
                  /\ text_items'[Len(text_items')].text = ev'.x[2]
                  /\ text_items'[Len(text_items')].font_size =
                        IF brush_size * 4 > 12 THEN brush_size * 4 ELSE 12
             ELSE text_items' = text_items]_vars

\* a text with whitespace at both ends was added at brush size 50
C16_Witness ==
    /\ IsPress(ev, 1) /\ ev.x = <<"OK", <<" ", "a", "\t">>>>
    /\ brush_size = 50
    /\ text_items # <<>>
    /\ text_items[Len(text_items)].text = <<" ", "a", "\t">>
    /\ text_items[Len(text_items)].font_size = 200

\* C18: clear empties the stroke, shape, text and image collections and
\* removes the stroke draft and the shape draft in one step, whatever the
\* state it is called in
C18_ClearEmptiesAll ==
    ev.kind = "clear" =>
        /\ strokes = <<>> /\ shapes = <<>>
        /\ text_items = <<>> /\ images = <<>>
        /\ current_stroke = None /\ current_shape = None

\* clear was called with the primary button held down, in the middle of a
\* gesture of the shape tool
C18_Witness ==
    /\ ev.kind = "clear" /\ button1 /\ current_tool = "shape"
    /\ docVars = <<<<>>, <<>>, <<>>, <<>>>>
    /\ current_stroke = None /\ current_shape = None

\* C19: every handler or operation that changes a collection, a draft, the
\* offset or the zoom calls queue_draw in the same step, the primary-down
\* that creates a shape draft included
C19_MutationQueuesDraw ==
    [][<<docVars, current_stroke, current_shape, viewVars>>'
           # <<docVars, current_stroke, current_shape, viewVars>>
       => queued']_vars

\* the place of a paint operation in the order of the design
Rank(kind) ==
    CASE kind = "background" -> 0
      [] kind = "image" -> 1
      [] kind = "stroke" -> 2
      [] kind = "shape" -> 3
      [] kind = "text" -> 4
      [] kind = "draft" -> 5

\* C20: one render paints the background, every image, every committed
\* stroke, every committed shape, every text item and only then the draft;
\* within a collection the items are painted in insertion order
C20_PaintOrder ==
    \A i, j \in DOMAIN on_draw :
        i < j =>
            /\ Rank(on_draw[i].kind) <= Rank(on_draw[j].kind)
            /\ on_draw[i].kind = on_draw[j].kind =>
                  on_draw[i].index < on_draw[j].index

IsDrop(e) == e.kind = "drop"

\* the files of a drop that decode
DecodedOf(files) == SelectSeq(files, LAMBDA f : f.ok)

\* C21: a drop never ends with an exception; a drop whose files all fail to
\* decode leaves the images as they were; on a board with a usable zoom the
\* drop appends one image per file that decodes (also after a file that
\* failed) and nothing else; the rest of the document is never changed
C21_FailedDecodeChangesNothing ==
    /\ [](IsDrop(ev) =>
            /\ ~raised
            /\ DecodedOf(ev.arg) = <<>> => images = ev.x
            /\ Len(images) >= Len(ev.x)
            /\ SubSeq(images, 1, Len(ev.x)) = ev.x
            /\ zoom # 0 =>
                  /\ Len(images) = Len(ev.x) + Len(DecodedOf(ev.arg))
                  /\ \A i \in 1..Len(DecodedOf(ev.arg)) :
                        /\ images[Len(ev.x) + i].width
                               <= DecodedOf(ev.arg)[i].width
                        /\ images[Len(ev.x) + i].height
                               <= DecodedOf(ev.arg)[i].height)
    /\ [][IsDrop(ev') =>
            UNCHANGED <<strokes, shapes, text_items, draftVars, viewVars>>]_vars

\* a drop of an undecodable file followed by an image, on a board that holds
\* a stroke and an image: the image was added after the two
C21_Witness ==
    /\ IsDrop(ev) /\ Len(ev.arg) = 2
    /\ ~ev.arg[1].ok /\ ev.arg[2].ok
    /\ Len(ev.x) = 1 /\ Len(images) = 2
    /\ strokes # <<>>

\* the point lists the renderer smooths: the committed strokes and the draft
PointLists ==
    {strokes[i].points : i \in 1..Len(strokes)}
    \cup (IF current_stroke # None THEN {current_stroke.points} ELSE {})

\* C22: catmull_rom_spline returns a sequence of 0, 1, 2 or 3 points as it
\* is, for every num_segments
C22_ShortInputUnchanged ==
    \A points \in PointLists, s \in SegmentCounts :
        Len(points) < 4 => catmull_rom_spline(points, s) = points

\* a draft of three different points was rendered
C22_Witness ==
    /\ ev.kind = "draw" /\ current_stroke # None
    /\ Len(current_stroke.points) = 3
    /\ Cardinality({current_stroke.points[j] : j \in 1..3}) = 3

\* the largest magnitude of a coordinate of the points
MaxCoord(points) ==
    LET coords == {0} \cup {Abs(points[j][c]) : j \in 1..Len(points),
                                                c \in 1..2}
    IN  CHOOSE m \in coords : \A n \in coords : n <= m

\* the rounding of the eleven float operations of one coordinate of the
\* formula, on operands of up to 12 times the largest coordinate: half a
\* unit in the last place each, and the spacing of the format
SplineRounding(points) == (66 * MaxCoord(points)) \div 2^MantBits + 4

\* the points of the output are those of the design: the count, the first
\* input point, and the last two input points
SplineFrame(points, s, out) ==
    /\ Len(out) = 1 + (Len(points) - 3) * s + 2
    /\ out[1] = points[1]
    /\ out[Len(out) - 1] = points[Len(points) - 1]
    /\ out[Len(out)] = points[Len(points)]

\* C23 as stated: for n >= 4 points and s segments the output has
\* 1 + (n-3)*s + 2 points, begins with the first input point, ends with the
\* last two, and the last point of span i is exactly input point i + 2
C23_SplineLayoutExact ==
    \A points \in PointLists, s \in 0..MaxSegments :
        Len(points) >= 4 =>
            LET out == catmull_rom_spline(points, s)
            IN  /\ SplineFrame(points, s, out)
                /\ \A i \in 0..(Len(points) - 4) :
                      s >= 1 => out[1 + (i + 1) * s] = points[i + 3]

\* C23: for n >= 4 points and s segments the output has 1 + (n-3)*s + 2
\* points, begins with the first input point, ends with the last two, and
\* the last point of span i is input point i + 2 up to the rounding of the
\* float operations of the formula
C23_SplineLayout ==
    \A points \in PointLists, s \in 0..MaxSegments :
        Len(points) >= 4 =>
            LET out == catmull_rom_spline(points, s)
            IN  /\ SplineFrame(points, s, out)
                /\ \A i \in 0..(Len(points) - 4), c \in 1..2 :
                      s >= 1 =>
                          Abs(out[1 + (i + 1) * s][c] - points[i + 3][c])
                              <= SplineRounding(points)

\* a draft of five points through the four positions of the curve was
\* rendered on the zoomed board: two spans of five segments
C23_Witness ==
    /\ ev.kind = "draw" /\ current_stroke # None
    /\ zoom # FromInt(1)
    /\ Len(current_stroke.points) = 5
    /\ Cardinality({current_stroke.points[j] : j \in 1..5}) = 4
    /\ Len(ev.arg[2]) = 13

\* twice the signed area of the triangle a, b, q
Cross(a, b, q) ==
    (b[1] - a[1]) * (q[2] - a[2]) - (b[2] - a[2]) * (q[1] - a[1])

Collinear(points) ==
    \A i, j, k \in 1..Len(points) :
        Cross(points[i], points[j], points[k]) = 0

\* C24 as stated: every point returned for 4 collinear points with
\* num_segments = 1 lies exactly on the line through them
C24_CollinearStaysOnLineExact ==
    \A points \in PointLists :
        Len(points) = 4 /\ Collinear(points) =>
            LET out == catmull_rom_spline(points, 1)
            IN  \A k \in 1..Len(out), i, j \in 1..4 :
                    Cross(points[i], points[j], out[k]) = 0

\* C24: every point returned for 4 collinear points with num_segments = 1
\* lies on the line through them up to the rounding of the float operations
\* of the formula
C24_CollinearStaysOnLine ==
    \A points \in PointLists :
        Len(points) = 4 /\ Collinear(points) =>
            LET out == catmull_rom_spline(points, 1)
            IN  \A k \in 1..Len(out), i, j \in 1..4 :
                    Abs(Cross(points[i], points[j], out[k]))
                        <= SplineRounding(points)
                           * (Abs(points[j][1] - points[i][1])
                              + Abs(points[j][2] - points[i][2]))

\* a draft of four points along the three positions of one line was
\* rendered on the zoomed board
C24_Witness ==
    /\ ev.kind = "draw" /\ current_stroke # None
    /\ zoom # FromInt(1)
    /\ Len(current_stroke.points) = 4
    /\ Collinear(current_stroke.points)
    /\ Cardinality({current_stroke.points[j] : j \in 1..4}) = 3

IsMotion(e) == e.kind = "motion"

\* C25: a press, a pointer-move, a release of the secondary button and a
\* scroll leave the committed strokes and shapes as they are; a release of
\* the primary button leaves them, or appends the whole stroke draft to the
\* strokes, or appends the whole shape draft to the shapes; after a release
\* of the primary button while not panning neither draft remains
C25_DraftsPromotedOnRelease ==
    [][/\ (ev'.kind = "press" \/ IsMotion(ev') \/ IsScroll(ev')
           \/ IsRelease(ev', 3))
          => UNCHANGED <<strokes, shapes>>
       /\ IsRelease(ev', 1) =>
            \/ UNCHANGED <<strokes, shapes>>
            \/ /\ current_stroke # None
               /\ strokes' = Append(strokes, current_stroke)
               /\ UNCHANGED shapes
            \/ /\ current_shape # None
               /\ shapes' = Append(shapes, current_shape)
               /\ UNCHANGED strokes
       /\ IsRelease(ev', 1) /\ ~is_panning =>
            current_stroke' = None /\ current_shape' = None]_vars

\* a stroke of two points was committed by a release of the primary
\* button, after the tool was switched to the shape tool during the gesture
C25_Witness ==
    /\ IsRelease(ev, 1) /\ queued
    /\ current_tool = "shape"
    /\ strokes # <<>> /\ Len(strokes[1].points) = 2
    /\ shapes = <<>>
    /\ current_stroke = None /\ current_shape = None

\* the world points of the pointer positions of a move, under the view of
\* the state the move is delivered in
TrackInWorld ==
    {ScreenToWorldAt(FromInt(p[1]), FromInt(p[2]), offset_x, offset_y, zoom) :
        p \in Track}

\* C26: a scroll leaves is_panning, the pan anchor, both drafts, the
\* collections and the tool state as they are, whatever the drag state; the
\* gesture goes on after it: the next move appends to the stroke draft, or
\* sets the extent of the shape draft from, the pointer position converted
\* under the zoom and offset the scroll left
C26_ScrollKeepsDragState ==
    [][/\ IsScroll(ev') =>
            UNCHANGED <<panVars, draftVars, docVars, appVars, brush_size>>
       /\ IsMotion(ev') /\ current_stroke' # current_stroke =>
            /\ current_stroke # None /\ current_stroke' # None
            /\ \E w \in TrackInWorld :
                   current_stroke'.points = Append(current_stroke.points, w)
       /\ IsMotion(ev') /\ current_shape' # current_shape =>
            /\ current_shape # None /\ current_shape' # None
            /\ \E w \in TrackInWorld :
                   /\ current_shape'.w = FSub(w[1], shape_start_x)
                   /\ current_shape'.h = FSub(w[2], shape_start_y)]_vars

\* a stroke draft begun at zoom 1 got its second point after a scroll had
\* changed the zoom
C26_Witness ==
    /\ IsMotion(ev) /\ zoom # FromInt(1)
    /\ current_stroke # None /\ Len(current_stroke.points) = 2
    /\ current_stroke.points[1] = <<FromInt(5), FromInt(3)>>
    /\ current_stroke.points[2] \in TrackInWorld
    /\ current_stroke.points[2] \notin {<<FromInt(5), FromInt(3)>>,
                                        <<FromInt(10), 0>>}

\* a pan move whose gesture was followed from its secondary-down
IsPanMove(e) == IsMotion(e) /\ e.y # <<>>

\* neither the zoom nor a collection is changed by the events of a pan
PanFrame ==
    [][(IsPress(ev', 3) \/ IsRelease(ev', 3) \/ (IsMotion(ev') /\ is_panning))
       => UNCHANGED <<zoom, docVars>>]_vars

\* C27 as stated: during a pan gesture the offset is exactly the offset at
\* the secondary-down plus (last pointer position - position of the
\* secondary-down), and the gesture changes neither the zoom nor a collection
C27_PanAddsScreenDeltaExact ==
    /\ [](IsPanMove(ev) =>
            /\ offset_x = FAdd(ev.y[1], FSub(pan_start_x, ev.y[3]))
            /\ offset_y = FAdd(ev.y[2], FSub(pan_start_y, ev.y[4])))
    /\ PanFrame

\* the rounding of the additions of the pan moves of a session: each rounds
\* by at most half a unit in the last place of an offset within MaxOffset
PanRounding == nview * ((MaxOffset * Unit) \div 2^MantBits + 1)

\* C27: during a pan gesture the offset is the offset at the secondary-down
\* plus (last pointer position - position of the secondary-down) up to the
\* rounding of the float additions, whatever the zoom and however the
\* movement was split; the gesture changes neither the zoom nor a collection
C27_PanAddsScreenDelta ==
    /\ [](IsPanMove(ev) =>
            /\ Abs(offset_x - (ev.y[1] + pan_start_x - ev.y[3])) <= PanRounding
            /\ Abs(offset_y - (ev.y[2] + pan_start_y - ev.y[4])) <= PanRounding)
    /\ PanFrame

\* the second move of a pan gesture on a zoomed board
C27_Witness ==
    /\ IsPanMove(ev) /\ zoom # FromInt(1)
    /\ pan_start_x # ev.y[3]
    /\ offset_x # ev.y[1]
    /\ offset_x # FAdd(ev.y[1], FSub(pan_start_x, ev.y[3]))

\* the world point of the pixel the text tool is clicked on
ClickInWorld ==
    {ScreenToWorldAt(FromInt(p[1]), FromInt(p[2]), offset_x, offset_y, zoom) :
        p \in Anchor}

\* C28: a primary-down with the text tool active leaves both drafts, the
\* strokes, the shapes, the images and the view as they are; it leaves the
\* text items too unless the dialog was confirmed with a text that has a
\* non-whitespace character, and then it appends exactly one item, anchored
\* at the world point of the click; a cancelled dialog changes nothing
C28_TextClick ==
    [][IsPress(ev', 1) /\ current_tool = "text" =>
          /\ UNCHANGED <<draftVars, strokes, shapes, images, viewVars>>
          /\ \/ text_items' = text_items
             \/ /\ ev'.x # <<>> /\ ev'.x[1] = "OK" /\ HasInk(ev'.x[2])
                /\ Len(text_items') = Len(text_items) + 1
                /\ SubSeq(text_items', 1, Len(text_items)) = text_items
                /\ <<text_items'[Len(text_items')].x,
                     text_items'[Len(text_items')].y>> \in ClickInWorld
          /\ ev'.x # <<>> /\ ev'.x[1] = "OK" /\ HasInk(ev'.x[2])
                => text_items' # text_items
          /\ ev'.x = <<>> \/ ev'.x[1] = "CANCEL" =>
                text_items' = text_items]_vars

\* a confirmed text was anchored at the click on a board of zoom 10
C28_Witness ==
    /\ IsPress(ev, 1) /\ ev.x # <<>> /\ ev.x[1] = "OK"
    /\ current_tool = "text"
    /\ zoom = FromInt(10)
    /\ text_items # <<>>
    /\ text_items[Len(text_items)].x = FromRat(1, 2)
    /\ current_stroke = None /\ current_shape = None

\* the collection `after` holds the items of `before`, unchanged and at the
\* same places
Extends(after, before) ==
    /\ Len(after) >= Len(before)
    /\ SubSeq(after, 1, Len(before)) = before

\* C29: between clears and loads the strokes, shapes and text items only
\* grow at the end: no pointer, scroll, tool, render or serialization step
\* changes a field of a committed item (the points of a stroke are not
\* replaced by the smoothed ones), removes it or moves it
C29_CommittedImmutable ==
    [][ev'.kind \notin {"clear", "open"} =>
          /\ Extends(strokes', strokes)
          /\ Extends(shapes', shapes)
          /\ Extends(text_items', text_items)]_vars

\* a second shape was committed on the loaded board and the board was
\* rendered: the first stroke still has its four raw points while the path
\* painted for it has eight
C29_Witness ==
    /\ ev.kind = "draw"
    /\ strokes # <<>> /\ Len(strokes[1].points) = 4
    /\ Len(ev.arg[1][1]) = 8
    /\ Len(shapes) = 2 /\ shapes[1] = CurvedRecord.shapes[1]
    /\ text_items # <<>>

\* C30: the colour, size and is_eraser tag of a stroke draft and the type,
\* anchor, colour and size of a shape draft are those in effect at the
\* primary-down that created it; no later step changes them while the draft
\* lives, whatever tool, shape type, eraser mode, colour or brush size is
\* chosen meanwhile; the primary-up commits the draft that exists, not an
\* entity of the tool that is active then
C30_DraftAttributesFixed ==
    [][/\ current_stroke = None /\ current_stroke' # None =>
            /\ IsPress(ev', 1)
            /\ current_stroke'.color =
                  (IF eraser_mode THEN bg_color ELSE brush_color)
            /\ current_stroke'.size = brush_size
            /\ current_stroke'.is_eraser = eraser_mode
       /\ current_shape = None /\ current_shape' # None =>
            /\ IsPress(ev', 1)
            /\ current_shape'.type = current_shape_type
            /\ current_shape'.color = brush_color
            /\ current_shape'.size = brush_size
       /\ current_stroke # None /\ current_stroke' # None =>
            /\ current_stroke'.color = current_stroke.color
            /\ current_stroke'.size = current_stroke.size
            /\ current_stroke'.is_eraser = current_stroke.is_eraser
       /\ current_shape # None /\ current_shape' # None =>
            /\ current_shape'.type = current_shape.type
            /\ current_shape'.x = current_shape.x
            /\ current_shape'.y = current_shape.y
            /\ current_shape'.color = current_shape.color
            /\ current_shape'.size = current_shape.size
       /\ IsRelease(ev', 1) /\ current_stroke # None /\ current_shape = None =>
            /\ strokes' = Append(strokes, current_stroke)
            /\ UNCHANGED shapes
       /\ IsRelease(ev', 1) /\ current_shape # None =>
            /\ shapes' \in {shapes, Append(shapes, current_shape)}
            /\ UNCHANGED strokes]_vars

\* a rectangle begun in black at size 3 was committed as such after the
\* circle type, the brush tool, red and size 50 had been chosen during the
\* gesture
C30_Witness ==
    /\ IsRelease(ev, 1)
    /\ current_tool = "brush" /\ current_shape_type = "circle"
    /\ brush_color = Red /\ brush_size = 50
    /\ shapes # <<>>
    /\ shapes[1].type = "rect" /\ shapes[1].color = Black
    /\ shapes[1].size = DefaultBrushSize
    /\ strokes = <<>>

\* the handler of the tool event e
IsTool(e, handler) == e.kind = "tool" /\ e.arg = handler

\* the tool that a selection handler makes current
SelectedTool ==
    [on_select_brush |-> "brush", on_select_shape |-> "shape",
     on_select_shape_type |-> "shape", on_select_text |-> "text"]

\* what the tool handlers have established in every state
EraserUnderBrush ==
    /\ eraser_mode => current_tool = "brush"
    /\ \A h \in DOMAIN SelectedTool :
           IsTool(ev, h) => ~eraser_mode /\ current_tool = SelectedTool[h]
    /\ IsTool(ev, "on_toggle_eraser") /\ ~eraser_mode => current_tool = "brush"

\* C31: eraser mode is on only under the brush tool; the handlers that select
\* the brush, the shape tool, a shape type or the text tool end with eraser
\* mode off and their tool current; a toggle inverts eraser mode, and one
\* that turns it off leaves the current tool, the brush, as it is
C31_EraserImpliesBrush ==
    /\ []EraserUnderBrush
    /\ [][IsTool(ev', "on_toggle_eraser") =>
              /\ eraser_mode' = ~eraser_mode
              /\ ~eraser_mode' => current_tool' = current_tool]_vars

\* after circles were selected, a toggle has turned the eraser off and the
\* brush, not the shape tool, is current
C31_Witness ==
    /\ IsTool(ev, "on_toggle_eraser")
    /\ ~eraser_mode
    /\ current_tool = "brush"
    /\ current_shape_type = "circle"
\* C32: while primary-down and primary-up alternate, whatever moves,
\* secondary-button events, wheel ticks, tool selections and clears come in
\* between, the stroke draft and the shape draft never exist together
C32_AtMostOneDraft == ~(current_stroke # None /\ current_shape # None)

\* a shape draft is alive under the brush tool while the view is panned: the
\* tool was switched and the secondary button pressed after the primary-down
C32_Witness ==
    /\ current_shape # None
    /\ current_stroke = None
    /\ current_tool = "brush"
    /\ is_panning
    /\ button1
    /\ nview > 0
\* C33: a pointer-move delivered while panning changes nothing but the offset
\* and the pan anchor: the drafts, the collections, the zoom and the panning
\* flag stay as they are, also when the primary button is held over a draft
C33_PanMoveOnlyPans ==
    [][IsMotion(ev') /\ is_panning =>
           UNCHANGED <<draftVars, docVars, zoom, is_panning, brush_size,
                       appVars>>]_vars

\* a pan move has shifted the view while the primary button was held over a
\* draft
C33_Witness ==
    /\ IsPanMove(ev)
    /\ button1
    /\ current_stroke # None \/ current_shape # None
    /\ offset_x # ev.y[1]
\* C34: a whiteboard window that has just been opened, on a new or a loaded
\* board, has the brush tool current and eraser mode off, whatever was
\* selected in an earlier session
C34_SessionStartsWithBrush ==
    IsOpen(ev) => current_tool = "brush" /\ ~eraser_mode
IsSerialize(e) == e.kind = "serialize"

\* the keys of a stroke that on_button_press creates
StrokeKeys == {"points", "color", "size", "is_eraser"}

\* the record holds the committed strokes, shapes and text items in
\* collection order and the view state, and nothing else
RecordOfCommitted(data) ==
    /\ DOMAIN data = {"strokes", "shapes", "text_items", "offset_x",
                      "offset_y", "zoom", "brush_size"}
    /\ Len(data.strokes) = Len(strokes)
    /\ \A i \in DOMAIN strokes :
           /\ DOMAIN data.strokes[i] = StrokeKeys
           /\ \A k \in StrokeKeys \cap DOMAIN strokes[i] :
                  data.strokes[i][k] = strokes[i][k]
    /\ data.shapes = shapes
    /\ data.text_items = text_items
    /\ data.offset_x = offset_x /\ data.offset_y = offset_y
    /\ data.zoom = zoom
    /\ data.brush_size = brush_size

\* C35: get_board_data changes no collection, no draft and nothing of the
\* view, and the record it returns holds exactly the committed strokes,
\* shapes and text items in collection order plus offset_x, offset_y, zoom
\* and brush_size; a stroke or shape draft in progress is not in the record
C35_GetBoardDataReadOnly ==
    /\ [](IsSerialize(ev) => RecordOfCommitted(ev.arg))
    /\ [][IsSerialize(ev') =>
              UNCHANGED <<viewVars, panVars, draftVars, docVars, brush_size,
                          appVars>>]_vars

\* the board was serialized in the middle of a stroke on the loaded board:
\* the record has the stroke of the file and not the draft
C35_Witness ==
    /\ IsSerialize(ev)
    /\ current_stroke # None
    /\ strokes # <<>>
    /\ Len(ev.arg.strokes) = Len(CurvedRecord.strokes)
\* C36: a pixbuf whose width and height are both >= 1 is recorded by add_image
\* with a width and a height that are both >= 1
C36_ImageSizeAtLeastOne ==
    IsImage(ev) /\ ev.arg[1] >= 1 /\ ev.arg[2] >= 1 =>
        \A i \in DOMAIN images : images[i].width >= 1 /\ images[i].height >= 1
IsSave(e) == e.kind = "save"

IsDelete(e) == e.kind = "delete"

\* C37: the stored document of a board is removed only by the delete of that
\* board, and replaced only by a save from a window that was opened on that
\* board or has saved it before; a save from a new board leaves the stored
\* documents of the boards saved earlier as they are
C37_StoredDocumentsKept ==
    [][\A n \in DOMAIN board_save :
          /\ n \notin DOMAIN board_save' => IsDelete(ev') /\ ev'.arg = n
          /\ n \in DOMAIN board_save' /\ board_save'[n] # board_save[n] =>
                IsSave(ev') /\ board_name = n /\ own_file]_vars
====
